---- MODULE Spec2Model ----
(***************************************************************************)
(* A model of icad_tone_detection: the frame grouper, the four tone        *)
(* detectors and the cascade that tone_detect runs over them.              *)
(*                                                                         *)
(* Units.  Times are integer milliseconds: every instant the program       *)
(* handles is round(t, 3).  Frequencies are integers in units of 0.05 Hz   *)
(* ("fu"): the grouper rounds every frame to 0.1 Hz, and the median of an  *)
(* even number of such values falls on the 0.05 Hz grid.  Window           *)
(* arithmetic with the half-hop guard is done in half-milliseconds.        *)
(***************************************************************************)
EXTENDS Integers, Sequences, FiniteSets, TLC

\* ---------------------------------------------------------------- units

Hz(x) == 20 * x

Abs(x) == IF x < 0 THEN 0 - x ELSE x

Max2(a, b) == IF a >= b THEN a ELSE b

Min2(a, b) == IF a <= b THEN a ELSE b

\* round(f, 1): to the nearest 0.1 Hz (2 fu).  An odd value is a decimal tie;
\* the input frames are whole Hz, so a tie is never rounded here.
RoundTenth(x) == IF x % 2 = 0 THEN x
                 ELSE IF ((x - 1) \div 2) % 2 = 0 THEN x - 1 ELSE x + 1

\* round(t, 2) of an instant in ms: to the nearest 10 ms, a tie to the even
\* multiple.  Instants of the modelled hop end in 4 ms, so no tie is rounded.
RoundCs(t) == LET r == t % 10
              IN  IF r < 5 THEN t - r
                  ELSE IF r > 5 THEN t - r + 10
                  ELSE IF ((t - r) \div 10) % 2 = 0 THEN t - r ELSE t - r + 10

\* statistics.median / numpy.median of a non-empty sequence of integers whose
\* two middle values have an even sum.
Median(s) == LET t == SortSeq(s, LAMBDA a, b: a < b)
                 n == Len(t)
             IN  IF n % 2 = 1 THEN t[(n + 1) \div 2]
                 ELSE (t[n \div 2] + t[n \div 2 + 1]) \div 2

\* ---------------------------------------------------------------- frontend timing

FrameRate == 16000

\* _pick_nfft: 2 ** round(log2(clamp(2 * hop, 256, 4096))).  round(log2 t) = k
\* iff 2^(2k-1) <= t^2 < 2^(2k+1).
RECURSIVE NearestPow2(_, _)
NearestPow2(t, p) == IF t * t < 2 * p * p THEN p ELSE NearestPow2(t, 2 * p)

PickNfft(hop) == NearestPow2(Max2(256, Min2(4096, 2 * hop)), 1)

HopLength(cfg) == Max2(1, (FrameRate * cfg.time_resolution_ms) \div 1000)

\* scipy.signal.stft(boundary=None, padded=False): frame k is centred at
\* (nperseg / 2 + k * hop) / fs.  In ms, for k counted from 1.
FrameTime(cfg, k) ==
    (PickNfft(HopLength(cfg)) * 1000) \div (2 * FrameRate)
        + ((k - 1) * HopLength(cfg) * 1000) \div FrameRate

\* The number of frames stft cuts from n samples without padding.
FrameCount(cfg, n) ==
    LET noverlap == Max2(0, PickNfft(HopLength(cfg)) - HopLength(cfg))
    IN  Max2(0, (n - noverlap) \div (PickNfft(HopLength(cfg)) - noverlap))

StepMs(cfg) == (HopLength(cfg) * 1000) \div FrameRate

\* ---------------------------------------------------------------- configuration

\* tone_detect's keyword defaults.  matching_threshold is in tenths of a
\* percent, lengths and gaps in ms, bandwidths and bands in fu, levels in dB.
DefaultConfig ==
    [ matching_threshold |-> 25,
      time_resolution_ms |-> 50,
      fe_freq_band |-> <<Hz(200), Hz(3000)>>,
      fe_merge_short_gaps_ms |-> 0,
      fe_silence_below_global_db |-> -28,
      fe_snr_above_noise_db |-> 6,
      tone_a_min_length |-> 850,
      tone_b_min_length |-> 2600,
      two_tone_max_gap_between_a_b |-> 350,
      two_tone_bw_hz |-> Hz(25),
      two_tone_min_pair_separation_hz |-> Hz(40),
      hi_low_interval |-> 200,
      hi_low_min_alternations |-> 6,
      hi_low_tone_bw_hz |-> Hz(25),
      hi_low_min_pair_separation_hz |-> Hz(40),
      long_tone_min_length |-> 3800,
      long_tone_bw_hz |-> Hz(25),
      pulsed_bw_hz |-> Hz(25),
      pulsed_min_cycles |-> 6,
      pulsed_min_on_ms |-> 120,
      pulsed_max_on_ms |-> 900,
      pulsed_min_off_ms |-> 25,
      pulsed_max_off_ms |-> 350,
      pulsed_auto_center_band |-> <<Hz(200), Hz(3000)>>,
      pulsed_mode_bin_hz |-> Hz(5),
      detect_pulsed |-> TRUE,
      detect_two_tone |-> TRUE,
      detect_long |-> TRUE,
      detect_hi_low |-> TRUE,
      detect_mdc |-> TRUE,
      mdc_high_pass |-> 200,
      mdc_low_pass |-> 4000,
      detect_dtmf |-> TRUE ]

\* ---------------------------------------------------------------- frontend gating

\* The frontend's view of the samples: for each STFT frame its in-band peak
\* relative to the global peak, rel_db (whole dB, 0 for the loudest frame), and
\* the interpolated frequency of that peak, peak_hz.

\* np.quantile(rel_db, 0.20), times 5: the linear interpolation between the
\* order statistics on either side of position (n - 1) / 5.
Quantile20(rel_db) ==
    LET s == SortSeq(rel_db, LAMBDA a, b: a < b)
        n == Len(s)
        lo == (n - 1) \div 5 + 1
        hi == Min2(n, lo + 1)
    IN  5 * s[lo] + ((n - 1) % 5) * (s[hi] - s[lo])

\* noise_floor_db: the median of the frames at or below the 20 % quantile,
\* -60 if there is none.
NoiseFloorDb(rel_db) ==
    LET q20 == Quantile20(rel_db)
        Low(x) == 5 * x <= q20
        low == SelectSeq(rel_db, Low)
    IN  IF low # <<>> THEN Median(low) ELSE -60

\* is_silent[t]
IsSilent(cfg, rel_db, t) ==
    \/ rel_db[t] < cfg.fe_silence_below_global_db
    \/ rel_db[t] < NoiseFloorDb(rel_db) + cfg.fe_snr_above_noise_db

\* detected: 0.0 for a silent frame, else the frame's peak frequency.
DetectedFrequencies(cfg, rel_db, peak_hz) ==
    [t \in 1..Len(rel_db) |-> IF IsSilent(cfg, rel_db, t) THEN 0 ELSE peak_hz[t]]

\* ---------------------------------------------------------------- frame grouper

\* A group is the tuple (start, end, duration, freqs) as a record.
Group(s, e, f) == [s |-> s, e |-> e, d |-> e - s, f |-> f]

\* A variant that ends a group at the time of its last frame.
FlushAtLastFrame(cfg, freqs, s_i, e_i) ==
    Group(FrameTime(cfg, s_i), FrameTime(cfg, e_i), SubSeq(freqs, s_i, e_i))

\* calculate_times and flush: the start is the first frame's time, the end the
\* last frame's time plus one step, both rounded to the millisecond.
Flush(cfg, freqs, s_i, e_i) ==
    Group(FrameTime(cfg, s_i), FrameTime(cfg, e_i) + StepMs(cfg), SubSeq(freqs, s_i, e_i))

\* dynamic_threshold, times 1000: 0 after an OFF frame, else the smaller of the
\* percentage of the previous frame and the absolute cap of 30 Hz.
DynamicThreshold(cfg, freqs, i) ==
    LET prev_f == freqs[Max2(1, i - 1)]
    IN  IF prev_f <= 0 THEN 0
        ELSE Min2(prev_f * cfg.matching_threshold, 1000 * Hz(30))

\* Whether frame i (i >= 2) starts a new group.
Boundary(cfg, freqs, i) ==
    \/ (freqs[i] = 0) # (freqs[i - 1] = 0)
    \/ 1000 * Abs(freqs[i] - freqs[i - 1]) > DynamicThreshold(cfg, freqs, i)

\* The elements of a finite set of integers in increasing order.
Ascending(S) ==
    [r \in 1..Cardinality(S) |-> CHOOSE x \in S : Cardinality({y \in S : y < x}) = r - 1]

\* The loop of match_frequencies: a group is flushed at every boundary and
\* after the last frame.  starts are the indices at which a group begins.
GroupFrames(cfg, freqs) ==
    LET starts == Ascending({1} \cup {i \in 2..Len(freqs) : Boundary(cfg, freqs, i)})
    IN  [r \in 1..Len(starts) |->
            Flush(cfg, freqs, starts[r],
                  IF r < Len(starts) THEN starts[r + 1] - 1 ELSE Len(freqs))]

\* The optional pass that merges a group with its successor when both have the
\* same polarity and the gap between them is at most merge_short_gaps_ms; a
\* merged pair is not merged again with what follows it.
RECURSIVE MergeShortGaps(_, _, _, _)
MergeShortGaps(cfg, groups, i, merged) ==
    IF i > Len(groups) THEN merged
    ELSE IF i = Len(groups) THEN Append(merged, groups[i])
    ELSE LET g1 == groups[i]
             g2 == groups[i + 1]
             same_state == (g1.f[1] = 0) = (g2.f[1] = 0)
             gap == Max2(0, g2.s - g1.e)
         IN  IF same_state /\ gap <= cfg.fe_merge_short_gaps_ms
             THEN MergeShortGaps(cfg, groups, i + 2,
                                 Append(merged, Group(g1.s, g2.e, g1.f \o g2.f)))
             ELSE MergeShortGaps(cfg, groups, i + 1, Append(merged, g1))

\* match_frequencies over the frontend's per-frame frequencies.
MatchFrequencies(cfg, detected) ==
    IF detected = <<>> THEN <<>>
    ELSE LET freqs == [i \in 1..Len(detected) |-> RoundTenth(detected[i])]
             groups == GroupFrames(cfg, freqs)
         IN  IF cfg.fe_merge_short_gaps_ms # 0 /\ Len(groups) >= 2
             THEN MergeShortGaps(cfg, groups, 1, <<>>)
             ELSE groups

\* ---------------------------------------------------------------- group helpers

Positive(f) == f > 0

\* group_center: the median of the group's non-zero frequencies, 0 if none.
GroupCenter(g) ==
    LET freqs == SelectSeq(g.f, Positive)
    IN  IF freqs = <<>> THEN 0 ELSE Median(freqs)

\* group_is_stable: at least two non-zero frames, all within bw_hz of their median.
GroupIsStable(g, bw_hz) ==
    LET freqs == SelectSeq(g.f, Positive)
    IN  /\ Len(freqs) >= 2
        /\ \A k \in 1..Len(freqs) : Abs(freqs[k] - Median(freqs)) <= bw_hz

\* separated_enough
SeparatedEnough(f1, f2, min_separation_hz) ==
    /\ f1 > 0
    /\ f2 > 0
    /\ Abs(f1 - f2) >= min_separation_hz

\* A comparison of two floats that are equal as decimals: the binary values of
\* end - start and of the threshold differ in the last place, one way or the
\* other depending on the instants, so the outcome at equality is taken from
\* fp_tie.  Away from equality the comparison is exact.
GeFloat(x, y, fp_tie) == x > y \/ (x = y /\ fp_tie)

LeFloat(x, y, fp_tie) == x < y \/ (x = y /\ fp_tie)

\* ---------------------------------------------------------------- two-tone detector

TwoToneConfigError(cfg) ==
    \/ cfg.tone_a_min_length <= 0
    \/ cfg.tone_b_min_length <= 0
    \/ cfg.two_tone_max_gap_between_a_b < 0
    \/ cfg.two_tone_bw_hz <= 0
    \/ cfg.two_tone_min_pair_separation_hz <= 0

\* Non-zero and stable: the test applied to cur and to last.
TwoToneUsable(cfg, g) ==
    /\ g.f # <<>>
    /\ g.f[1] > 0
    /\ GroupIsStable(g, cfg.two_tone_bw_hz)

\* cur if cur_dur >= min_tone_a_length else None, as a sequence of 0 or 1 group.
TwoToneCandidate(cfg, cur, fp_tie) ==
    IF GeFloat(cur.e - cur.s, cfg.tone_a_min_length, fp_tie) THEN <<cur>> ELSE <<>>

\* A variant without the gap limit.
TwoToneIsPairAnyGap(cfg, last, cur, fp_tie) ==
    /\ GeFloat(last.e - last.s, cfg.tone_a_min_length, fp_tie)
    /\ GeFloat(cur.e - cur.s, cfg.tone_b_min_length, fp_tie)
    /\ SeparatedEnough(GroupCenter(last), GroupCenter(cur),
                       cfg.two_tone_min_pair_separation_hz)

TwoToneIsPair(cfg, last, cur, fp_tie) ==
    /\ GeFloat(last.e - last.s, cfg.tone_a_min_length, fp_tie)
    /\ GeFloat(cur.e - cur.s, cfg.tone_b_min_length, fp_tie)
    /\ LeFloat(Max2(0, cur.s - last.e), cfg.two_tone_max_gap_between_a_b, fp_tie)
    /\ SeparatedEnough(GroupCenter(last), GroupCenter(cur),
                       cfg.two_tone_min_pair_separation_hz)

TwoToneHit(n, last, cur) ==
    [ tone_id |-> [kind |-> "qc", n |-> n],
      detected |-> <<RoundTenth(GroupCenter(last)), RoundTenth(GroupCenter(cur))>>,
      tone_a_length |-> last.d,
      tone_b_length |-> cur.d,
      start |-> last.s,
      end |-> cur.e ]

\* The loop of detect_two_tone_tones from group i on; last is <<>> or <<A>>.
RECURSIVE TwoToneScan(_, _, _, _, _, _)
TwoToneScan(cfg, groups, i, last, hits, fp_tie) ==
    IF i > Len(groups) THEN hits
    ELSE LET cur == groups[i]
         IN  IF ~TwoToneUsable(cfg, cur)
             THEN TwoToneScan(cfg, groups, i + 1, last, hits, fp_tie)
             ELSE IF last = <<>> \/ ~TwoToneUsable(cfg, last[1])
             THEN TwoToneScan(cfg, groups, i + 1,
                              TwoToneCandidate(cfg, cur, fp_tie), hits, fp_tie)
             ELSE IF TwoToneIsPair(cfg, last[1], cur, fp_tie)
             THEN TwoToneScan(cfg, groups, i + 1, <<>>,
                              Append(hits, TwoToneHit(Len(hits) + 1, last[1], cur)),
                              fp_tie)
             ELSE TwoToneScan(cfg, groups, i + 1,
                              TwoToneCandidate(cfg, cur, fp_tie), hits, fp_tie)

DetectTwoToneTones(cfg, groups, fp_tie) ==
    TwoToneScan(cfg, groups, 1, <<>>, <<>>, fp_tie)

\* ---------------------------------------------------------------- long-tone detector

LongConfigError(cfg) ==
    \/ cfg.long_tone_min_length <= 0
    \/ cfg.long_tone_bw_hz <= 0

\* A variant that takes a center on min_freq_hz too.
IsLongToneFromMinFreq(cfg, g) ==
    /\ g.f # <<>>
    /\ GroupIsStable(g, cfg.long_tone_bw_hz)
    /\ GroupCenter(g) >= cfg.fe_freq_band[1]
    /\ g.d >= cfg.long_tone_min_length

\* The test of one group; min_freq_hz is the frontend band's lower bound.
IsLongTone(cfg, g) ==
    /\ g.f # <<>>
    /\ GroupIsStable(g, cfg.long_tone_bw_hz)
    /\ GroupCenter(g) > cfg.fe_freq_band[1]
    /\ g.d >= cfg.long_tone_min_length

\* A variant that numbers every hit 1.
LongHitUnnumbered(n, g) ==
    [ tone_id |-> [kind |-> "lt", n |-> 1],
      detected |-> RoundTenth(GroupCenter(g)),
      start |-> g.s,
      end |-> g.e,
      length |-> g.d ]

LongHit(n, g) ==
    [ tone_id |-> [kind |-> "lt", n |-> n],
      detected |-> RoundTenth(GroupCenter(g)),
      start |-> g.s,
      end |-> g.e,
      length |-> g.d ]

RECURSIVE LongScan(_, _, _, _)
LongScan(cfg, groups, i, hits) ==
    IF i > Len(groups) THEN hits
    ELSE IF IsLongTone(cfg, groups[i])
         THEN LongScan(cfg, groups, i + 1, Append(hits, LongHit(Len(hits) + 1, groups[i])))
         ELSE LongScan(cfg, groups, i + 1, hits)

DetectLongTones(cfg, groups) == LongScan(cfg, groups, 1, <<>>)

\* ---------------------------------------------------------------- warble detector

WarbleConfigError(cfg) ==
    \/ cfg.hi_low_interval < 0
    \/ cfg.hi_low_min_alternations < 2
    \/ cfg.hi_low_tone_bw_hz <= 0
    \/ cfg.hi_low_min_pair_separation_hz <= 0

Close(a, b, tol) == Abs(a - b) <= tol

\* Non-zero, at least two frames, stable.
WarbleUsable(cfg, g) ==
    /\ g.f # <<>>
    /\ g.f[1] > 0
    /\ Len(g.f) >= 2
    /\ GroupIsStable(g, cfg.hi_low_tone_bw_hz)

\* A variant that never breaks a run on its gap.
WarbleGapNeverTooLong(cfg, last, g) == FALSE

\* not ((g[0] - last[1]) <= (interval_length + 1e-6))
WarbleGapTooLong(cfg, last, g) == g.s - last.e > cfg.hi_low_interval

\* The inner loop from group i on.  The group that ends a run has been read
\* (i is past it) when the loop is left.  The gap test carries a margin of
\* 1e-6 s, which absorbs the float error of the difference.
RECURSIVE WarbleRun(_, _, _, _, _)
WarbleRun(cfg, groups, i, current_sequence, current_tones) ==
    LET stop == [i |-> i + 1, seq |-> current_sequence, tones |-> current_tones]
    IN
    IF i > Len(groups)
    THEN [i |-> i, seq |-> current_sequence, tones |-> current_tones]
    ELSE LET g == groups[i]
             f == GroupCenter(g)
         IN  IF ~WarbleUsable(cfg, g) THEN stop
             ELSE IF current_sequence = <<>>
             THEN WarbleRun(cfg, groups, i + 1, <<g>>, <<f>>)
             ELSE LET last == current_sequence[Len(current_sequence)]
                  IN  IF WarbleGapTooLong(cfg, last, g) THEN stop
                      ELSE IF Close(f, GroupCenter(last), cfg.hi_low_tone_bw_hz) THEN stop
                      ELSE IF Len(current_tones) < 2
                      THEN IF SeparatedEnough(current_tones[1], f,
                                              cfg.hi_low_min_pair_separation_hz)
                           THEN WarbleRun(cfg, groups, i + 1,
                                          Append(current_sequence, g),
                                          Append(current_tones, f))
                           ELSE stop
                      ELSE IF \A k \in 1..Len(current_tones) :
                                 ~Close(f, current_tones[k], cfg.hi_low_tone_bw_hz)
                      THEN stop
                      ELSE WarbleRun(cfg, groups, i + 1,
                                     Append(current_sequence, g), current_tones)

\* The run's centers nearer to tone a than to tone b (lows), or the others.
WarbleCluster(seq, a, b, low) ==
    LET centers == [k \in 1..Len(seq) |-> GroupCenter(seq[k])]
        IsLow(fc) == Abs(fc - a) < Abs(fc - b)
        Pick(fc) == IsLow(fc) = low
    IN  SelectSeq(centers, Pick)

WarbleHit(n, seq, tones) ==
    LET a == tones[1]
        b == tones[2]
        lows == WarbleCluster(seq, a, b, TRUE)
        highs == WarbleCluster(seq, a, b, FALSE)
        x == IF lows # <<>> THEN Median(lows) ELSE a
        y == IF highs # <<>> THEN Median(highs) ELSE b
    IN  [ tone_id |-> [kind |-> "hl", n |-> n],
          detected |-> <<RoundTenth(Min2(x, y)), RoundTenth(Max2(x, y))>>,
          start |-> seq[1].s,
          end |-> seq[Len(seq)].e,
          length |-> RoundCs(seq[Len(seq)].e - seq[1].s),
          alternations |-> Len(seq) ]

RECURSIVE WarbleScan(_, _, _, _)
WarbleScan(cfg, groups, i, sequences) ==
    IF i > Len(groups) THEN sequences
    ELSE LET r == WarbleRun(cfg, groups, i, <<>>, <<>>)
         IN  IF Len(r.seq) >= cfg.hi_low_min_alternations /\ Len(r.tones) = 2
             THEN WarbleScan(cfg, groups, r.i,
                             Append(sequences, WarbleHit(Len(sequences) + 1, r.seq, r.tones)))
             ELSE WarbleScan(cfg, groups, r.i, sequences)

DetectWarbleTones(cfg, groups) == WarbleScan(cfg, groups, 1, <<>>)

\* ---------------------------------------------------------------- pulsed detector

PulsedConfigError(cfg) ==
    \/ cfg.pulsed_bw_hz <= 0
    \/ cfg.pulsed_mode_bin_hz <= 0
    \/ cfg.pulsed_min_on_ms > cfg.pulsed_max_on_ms
    \/ cfg.pulsed_min_off_ms > cfg.pulsed_max_off_ms
    \/ ~(cfg.pulsed_auto_center_band[1] < cfg.pulsed_auto_center_band[2])

\* nz = [f for f in freqs if lo <= f <= hi]
InBandFreqs(cfg, g) ==
    LET InBand(f) == /\ cfg.pulsed_auto_center_band[1] <= f
                     /\ f <= cfg.pulsed_auto_center_band[2]
    IN  SelectSeq(g.f, InBand)

\* The value a group contributes to the timeline: the median of its in-band
\* frames, 0 if it has none.
TimelineFreq(cfg, g) ==
    IF InBandFreqs(cfg, g) = <<>> THEN 0 ELSE Median(InBandFreqs(cfg, g))

\* The points t = start, start + step, ... < end of one group, each with the
\* group's value.  (The loop adds the step in floats and rounds each t to ms.)
TimelinePoints(cfg, g) ==
    LET step == cfg.time_resolution_ms
        n == (g.e - g.s + step - 1) \div step
    IN  [k \in 1..Max2(0, n) |-> [t |-> g.s + (k - 1) * step, f |-> TimelineFreq(cfg, g)]]

RECURSIVE Timeline(_, _, _)
Timeline(cfg, groups, i) ==
    IF i > Len(groups) THEN <<>>
    ELSE TimelinePoints(cfg, groups[i]) \o Timeline(cfg, groups, i + 1)

ModeBin(cfg, f) == f \div cfg.pulsed_mode_bin_hz

\* d[b] += w on a dict kept as the sequence of its (key, value) pairs in
\* insertion order.
AddToBin(bins, b, w) ==
    IF \E k \in 1..Len(bins) : bins[k].b = b
    THEN [k \in 1..Len(bins) |->
             IF bins[k].b = b THEN [b |-> b, w |-> bins[k].w + w] ELSE bins[k]]
    ELSE Append(bins, [b |-> b, w |-> w])

\* The four result lists of the first of two calls on the same input, <<>>
\* during the first call.
VARIABLE first_run

\* A variant whose choice among tied bins is not the same from one call to
\* the next: the first of them in the first call, the last in a second.
TopBinUnstable(bins) ==
    LET top == CHOOSE k \in 1..Len(bins) :
                   /\ \A m \in 1..Len(bins) : bins[m].w <= bins[k].w
                   /\ IF first_run = <<>>
                      THEN \A m \in 1..(k - 1) : bins[m].w < bins[k].w
                      ELSE \A m \in (k + 1)..Len(bins) : bins[m].w < bins[k].w
    IN  bins[top].b

\* max(d.items(), key=value)[0]: the first key, in insertion order, of largest
\* value.
TopBin(bins) ==
    LET best == CHOOSE k \in 1..Len(bins) :
                    /\ \A m \in 1..Len(bins) : bins[m].w <= bins[k].w
                    /\ \A m \in 1..(k - 1) : bins[m].w < bins[k].w
    IN  bins[best].b

\* Whether a group votes for the center: pulse-like duration, at least two
\* in-band frames, all positive ones within bw_hz of their median.
PulseLike(cfg, g) ==
    LET nz == InBandFreqs(cfg, g)
    IN  /\ g.d >= cfg.pulsed_min_on_ms
        /\ g.d <= cfg.pulsed_max_on_ms
        /\ Len(nz) >= 2
        /\ \A k \in 1..Len(nz) :
               nz[k] > 0 => Abs(nz[k] - Median(nz)) <= cfg.pulsed_bw_hz

RECURSIVE WeightedBins(_, _, _, _)
WeightedBins(cfg, groups, i, bins) ==
    IF i > Len(groups) THEN bins
    ELSE IF PulseLike(cfg, groups[i])
         THEN WeightedBins(cfg, groups, i + 1,
                           AddToBin(bins, ModeBin(cfg, Median(InBandFreqs(cfg, groups[i]))),
                                    groups[i].d))
         ELSE WeightedBins(cfg, groups, i + 1, bins)

\* The medians of all groups with in-band frames that fall in the top bin.
RECURSIVE CenterCandidates(_, _, _, _)
CenterCandidates(cfg, groups, i, top_bin) ==
    IF i > Len(groups) THEN <<>>
    ELSE LET nz == InBandFreqs(cfg, groups[i])
             rest == CenterCandidates(cfg, groups, i + 1, top_bin)
         IN  IF nz # <<>> /\ ModeBin(cfg, Median(nz)) = top_bin
             THEN <<Median(nz)>> \o rest
             ELSE rest

\* The in-band values of the timeline, for the fallback.
TimelineVals(cfg, timeline) ==
    LET vals == [k \in 1..Len(timeline) |-> timeline[k].f]
        InBand(f) == /\ cfg.pulsed_auto_center_band[1] <= f
                     /\ f <= cfg.pulsed_auto_center_band[2]
    IN  SelectSeq(vals, InBand)

\* Counter(int(v // mode_bin_hz) for v in vals), as the sequence of its
\* (key, count) pairs in insertion order: a key is inserted where it first occurs.
CountBins(cfg, vals) ==
    LET firsts == Ascending({k \in 1..Len(vals) :
                      \A m \in 1..(k - 1) : ModeBin(cfg, vals[m]) # ModeBin(cfg, vals[k])})
    IN  [r \in 1..Len(firsts) |->
            [b |-> ModeBin(cfg, vals[firsts[r]]),
             w |-> Cardinality({m \in 1..Len(vals) :
                       ModeBin(cfg, vals[m]) = ModeBin(cfg, vals[firsts[r]])})]]

\* center_hz as a sequence: <<center>>, or <<>> when the detector returns [] for
\* want of any in-band value.
CenterHz(cfg, groups, timeline) ==
    LET weighted_bins == WeightedBins(cfg, groups, 1, <<>>)
        vals == TimelineVals(cfg, timeline)
        top == TopBin(CountBins(cfg, vals))
        InTop(v) == ModeBin(cfg, v) = top
    IN  IF weighted_bins # <<>>
        THEN <<Median(CenterCandidates(cfg, groups, 1, TopBin(weighted_bins)))>>
        ELSE IF vals = <<>> THEN <<>>
        ELSE <<Median(SelectSeq(vals, InTop))>>

\* in_band(f): "on" iff f > 0 and within bw_hz of the center; anything else,
\* silence or another tone alike, is "off".
RunState(cfg, center_hz, f) ==
    IF f > 0 /\ Abs(f - center_hz) <= cfg.pulsed_bw_hz THEN "on" ELSE "off"

\* A variant of the run builder that closes a run at the time of its own last
\* point, leaving out the step that the point stands for.
RunsClosedAtLastPoint(cfg, center_hz, timeline) ==
    LET st(k) == RunState(cfg, center_hz, timeline[k].f)
        starts == Ascending({1} \cup {k \in 2..Len(timeline) : st(k) # st(k - 1)})
    IN  [r \in 1..Len(starts) |->
            [ st |-> st(starts[r]),
              start |-> timeline[starts[r]].t,
              end |-> IF r < Len(starts) THEN timeline[starts[r + 1] - 1].t
                      ELSE timeline[Len(timeline)].t ]]

\* The runs (state, start, end) of the timeline: a run is closed where the
\* state changes, at the time of the first point of the next run, and the last
\* one a step after the last point.
Runs(cfg, center_hz, timeline) ==
    LET st(k) == RunState(cfg, center_hz, timeline[k].f)
        starts == Ascending({1} \cup {k \in 2..Len(timeline) : st(k) # st(k - 1)})
    IN  [r \in 1..Len(starts) |->
            [ st |-> st(starts[r]),
              start |-> timeline[starts[r]].t,
              end |-> IF r < Len(starts) THEN timeline[starts[r + 1]].t
                      ELSE timeline[Len(timeline)].t + cfg.time_resolution_ms ]]

\* A variant that accepts an ON run of any length.
OnAnyLength(cfg, on_len_ms) == TRUE

\* min_on_ms <= on_len_ms <= max_on_ms
OnWithinBounds(cfg, on_len_ms) ==
    cfg.pulsed_min_on_ms <= on_len_ms /\ on_len_ms <= cfg.pulsed_max_on_ms

\* min_off_ms <= off_len_ms <= max_off_ms
OffWithinBounds(cfg, off_len_ms) ==
    cfg.pulsed_min_off_ms <= off_len_ms /\ off_len_ms <= cfg.pulsed_max_off_ms

\* The inner loop: pairs ON and OFF runs from run j on (j counted from 1).
RECURSIVE PulsedCycles(_, _, _, _, _, _)
PulsedCycles(cfg, runs, j, cycles, on_ms_list, off_ms_list) ==
    LET result(jj, ons) ==
            [j |-> jj, cycles |-> cycles, on_ms_list |-> ons, off_ms_list |-> off_ms_list]
    IN
    IF ~(j < Len(runs)) THEN result(j, on_ms_list)
    ELSE LET on_run == runs[j]
             on_len_ms == on_run.end - on_run.start
             off_run == runs[j + 1]
             off_len_ms == off_run.end - off_run.start
         IN  IF on_run.st # "on" THEN result(j, on_ms_list)
             ELSE IF ~OnWithinBounds(cfg, on_len_ms)
             THEN result(j, on_ms_list)
             ELSE IF off_run.st # "off" THEN result(j, Append(on_ms_list, on_len_ms))
             ELSE IF ~OffWithinBounds(cfg, off_len_ms)
             THEN result(j + 1, Append(on_ms_list, on_len_ms))
             ELSE PulsedCycles(cfg, runs, j + 2, cycles + 1,
                               Append(on_ms_list, on_len_ms),
                               Append(off_ms_list, off_len_ms))

\* int(np.median(xs)) if xs else 0
MedianMs(xs) == IF xs = <<>> THEN 0 ELSE Median(xs)

PulsedHit(n, center_hz, runs, i, r) ==
    LET end_idx == Max2(i, r.j - 1)
        s == RoundCs(runs[i].start)
        e == RoundCs(runs[end_idx].end)
    IN  [ tone_id |-> [kind |-> "pl", n |-> n],
          detected |-> RoundTenth(center_hz),
          start |-> s,
          end |-> e,
          length |-> RoundCs(e - s),
          cycles |-> r.cycles,
          on_ms_median |-> MedianMs(r.on_ms_list),
          off_ms_median |-> MedianMs(r.off_ms_list) ]

\* The outer loop from run i on (i counted from 1).
RECURSIVE PulsedScan(_, _, _, _, _)
PulsedScan(cfg, center_hz, runs, i, hits) ==
    IF ~(i < Len(runs)) THEN hits
    ELSE IF runs[i].st # "on" THEN PulsedScan(cfg, center_hz, runs, i + 1, hits)
    ELSE LET r == PulsedCycles(cfg, runs, i, 0, <<>>, <<>>)
         IN  IF r.cycles >= cfg.pulsed_min_cycles
             THEN PulsedScan(cfg, center_hz, runs, Max2(r.j, i + 1),
                             Append(hits, PulsedHit(Len(hits) + 1, center_hz, runs, i, r)))
             ELSE PulsedScan(cfg, center_hz, runs, i + 1, hits)

DetectPulsedSingleTone(cfg, groups) ==
    LET timeline == Timeline(cfg, groups, 1)
        center == CenterHz(cfg, groups, timeline)
        runs == Runs(cfg, center[1], timeline)
    IN  IF groups = <<>> \/ timeline = <<>> \/ center = <<>> THEN <<>>
        ELSE IF Len(runs) < 2 THEN <<>>
        ELSE PulsedScan(cfg, center[1], runs, 1, <<>>)

\* ---------------------------------------------------------------- cascade masking

\* guard_s = 0.5 * (time_resolution_ms / 1000), in half-milliseconds.
Guard(cfg) == cfg.time_resolution_ms

\* A window <<s, e>> in half-milliseconds.
Window(s_ms, e_ms) == <<2 * s_ms, 2 * e_ms>>

\* _overlaps, on windows in half-milliseconds.
Overlaps(a, b, guard, fp_tie) ==
    ~(LeFloat(a[2] + guard, b[1], fp_tie) \/ LeFloat(b[2] + guard, a[1], fp_tie))

\* _intervals_from_hits
IntervalsFromHits(hits) == [k \in 1..Len(hits) |-> Window(hits[k].start, hits[k].end)]

\* _qc_windows_from_hits(which="B", guard): the B window of each hit, widened
\* by the guard on both sides.
QcWindowsFromHits(qc_hits, guard) ==
    [k \in 1..Len(qc_hits) |->
        LET b_win == Window(qc_hits[k].end - qc_hits[k].tone_b_length, qc_hits[k].end)
        IN  <<Max2(0, b_win[1] - guard), b_win[2] + guard>>]

\* A variant of _filter_groups_outside that forgets the guard: a group is
\* dropped only if it properly intersects a window.
FilterGroupsOutsideNoGuard(groups, windows, guard, fp_tie) ==
    LET Outside(g) == \A k \in 1..Len(windows) :
                          ~Overlaps(Window(g.s, g.e), windows[k], 0, fp_tie)
    IN  IF windows = <<>> THEN groups ELSE SelectSeq(groups, Outside)

\* _filter_groups_outside
FilterGroupsOutside(groups, windows, guard, fp_tie) ==
    LET Outside(g) == \A k \in 1..Len(windows) :
                          ~Overlaps(Window(g.s, g.e), windows[k], guard, fp_tie)
    IN  IF windows = <<>> THEN groups ELSE SelectSeq(groups, Outside)

\* ---------------------------------------------------------------- inputs

\* The longest frame sequence enumerated.
MaxFrames == 6

\* Per-frame frequencies the frontend hands to the grouper: OFF, two tones far
\* apart, and one 30 Hz above the first (a group of its own, yet not separated
\* from it by the detectors' 40 Hz).
Tones == {0, Hz(800), Hz(830), Hz(1200)}

FrameSeqs == UNION {[1..n -> Tones] : n \in 0..MaxFrames}

\* A configuration whose thresholds are a few 50 ms frames, so that every
\* detector can fire within MaxFrames frames.
CompactConfig ==
    [DefaultConfig EXCEPT
        !.tone_a_min_length = 75,
        !.tone_b_min_length = 125,
        !.two_tone_max_gap_between_a_b = 100,
        !.hi_low_interval = 100,
        !.hi_low_min_alternations = 2,
        !.long_tone_min_length = 150,
        !.pulsed_min_cycles = 2,
        !.pulsed_min_on_ms = 50,
        !.pulsed_max_on_ms = 100,
        !.pulsed_min_off_ms = 50,
        !.pulsed_max_off_ms = 100]

\* n frames of f Hz.
Rep(f, n) == [k \in 1..n |-> Hz(f)]

RECURSIVE Times(_, _)
Times(n, s) == IF n = 0 THEN <<>> ELSE s \o Times(n - 1, s)

\* Scenario D: 12 segments of 0.15 s alternating 800 Hz and 1200 Hz.
ScenarioD == Times(6, Rep(800, 3) \o Rep(1200, 3))

\* Scenario E: 8 times (0.3 s of 1000 Hz, 0.1 s of silence).
ScenarioE == Times(8, Rep(1000, 6) \o Rep(0, 2))

\* Scenario F: 0.8 s of 700 Hz, 2.8 s of 1400 Hz, 5 s of 2000 Hz, 0.5 s gaps.
ScenarioF == Rep(700, 16) \o Rep(0, 10) \o Rep(1400, 56) \o Rep(0, 10) \o Rep(2000, 100)

\* A Quick Call whose A tone is 4 s long, two OFF frames, then a 2.8 s B tone.
LongAQuickCall == Rep(700, 80) \o Rep(0, 2) \o Rep(1400, 56)

\* Scenario C: 1.0 s of 900 Hz followed immediately by 3.0 s of 1500 Hz.
ScenarioC == Rep(900, 20) \o Rep(1500, 60)

Scenarios == {ScenarioC, ScenarioD, ScenarioE, ScenarioF, LongAQuickCall}

\* Six groups of 0.15 s, 800 and 840 Hz first, then 814 Hz alternating with
\* 840 Hz: 814 Hz is within the 25 Hz bandwidth of 800 Hz and 26 Hz from 840 Hz.
WarbleDrift ==
    Rep(800, 3) \o Rep(840, 3) \o Rep(814, 3) \o Rep(840, 3) \o Rep(814, 3) \o Rep(840, 3)

\* The longest frame sequence behind a group list handed to one detector.
MaxListFrames == 5

\* Longer inputs for the gap limits: two tones 0.1, 0.15 and 0.2 s apart, and
\* a pulse train of 0.1 s ON, 0.05 s OFF.
GapScenarios ==
    {Rep(800, 2) \o Rep(0, n) \o Rep(1200, 3) : n \in 2..4}
        \cup {Times(3, Rep(800, 2) \o Rep(0, 1))}

\* Inputs at the lower bound of the band: a tone on 800 Hz before one above
\* it, and a tone between 800.0 and 800.1 Hz, whose median is 800.05 Hz.
BandEdgeScenarios ==
    {Rep(800, 3) \o Rep(1200, 3), Rep(800, 2) \o <<Hz(800) + 2, Hz(800) + 2>>}

\* Inputs with several hits of one kind: two Quick Calls in a row, a Quick
\* Call followed by a tone long enough to be a B, and two warbles with an OFF
\* frame between them.  Then four groups of 0.1 s at 800, 840, 775 and 801 Hz:
\* the last two are both within the 25 Hz bandwidth of 800 Hz and 26 Hz from
\* each other.
OrderScenarios ==
    {Times(2, Rep(800, 2) \o Rep(1200, 3)),
     Rep(800, 2) \o Rep(1200, 3) \o Rep(800, 3),
     Rep(800, 2) \o Rep(1200, 2) \o Rep(0, 1) \o Rep(800, 2) \o Rep(1200, 2),
     Rep(800, 2) \o Rep(840, 2) \o Rep(775, 2) \o Rep(801, 2)}

ListFrameSeqs ==
    UNION {[1..n -> Tones] : n \in 0..MaxListFrames}
        \cup GapScenarios \cup BandEdgeScenarios \cup OrderScenarios

\* The compact thresholds, with a lower frequency bound of 800 Hz for Long, so
\* that a group sits exactly on the bound.
DetectorsConfig == [CompactConfig EXCEPT !.fe_freq_band = <<Hz(800), Hz(3000)>>]

\* Thresholds that a group of one 50 ms frame meets: 25 ms for a long tone and
\* for the tones A and B.
SingleFrameConfig ==
    [CompactConfig EXCEPT
        !.long_tone_min_length = 25,
        !.tone_a_min_length = 25,
        !.tone_b_min_length = 25]

\* The same thresholds when the caller asks for no minimum of cycles.
ZeroCyclesConfig == [DetectorsConfig EXCEPT !.pulsed_min_cycles = 0]

\* The list without its k-th group, the list itself if it has no k-th group:
\* what a caller passes after masking one group out.
DropGroup(groups, k) ==
    IF k \in 1..Len(groups)
    THEN SubSeq(groups, 1, k - 1) \o SubSeq(groups, k + 1, Len(groups))
    ELSE groups

\* The longest clip enumerated for the frontend, in frames.
MaxGateFrames == 6

\* Frame levels: the loudest frame, a tone 10 dB below it, near silence.
GateLevels == {0, -10, -40}

GatePeaks == {Hz(800), Hz(1200)}

\* global_peak is the largest frame peak, so some frame is at 0 dB.
LevelSeqs ==
    {s \in UNION {[1..n -> GateLevels] : n \in 1..MaxGateFrames} :
        \E k \in 1..Len(s) : s[k] = 0}

\* Scenario B: 5 s of one tone of constant amplitude: every frame at 0 dB.
ScenarioB == [k \in 1..FrameCount(DefaultConfig, 5 * FrameRate) |-> 0]

\* ---------------------------------------------------------------- the cascade

VARIABLES
    pc,                   \* the stage tone_detect is about to run
    cfg,                  \* the keyword arguments of the call
    rel_db, peak_hz,      \* the frames' levels and peak frequencies
    detected,             \* the frontend's per-frame frequencies
    matched_frequencies,  \* the grouper's output
    g1, g2, g3,           \* the group lists left after each masking
    pulsed_result, two_tone_result, long_result, hi_low_result,
    err,                  \* the exception that ended the call, "" if none
    fp_outcome,           \* how the float comparisons of this input fall at an
                          \* equality, <<>> where that is left open
    mdc_result, dtmf_result,
    invoked,              \* the decoder processes run so far, in order
    returned,             \* whether the result record was returned
    mag,                  \* the STFT magnitudes, one column of bins per frame
    peak_bin, delta,      \* each frame's dominant bin and interpolation offset
    loop_group, loop_t,   \* the pulsed timeline loops: the group and the instant
    timeline_len          \* the number of points appended to the timeline

\* What a second call on the same input is compared with.
rerun == <<fp_outcome, first_run>>

decoders == <<mdc_result, dtmf_result, invoked, returned>>

spectrum == <<mag, peak_bin, delta>>

timeline_loop == <<loop_group, loop_t, timeline_len>>

vars == <<pc, cfg, rel_db, peak_hz, detected, matched_frequencies, g1, g2, g3,
          pulsed_result, two_tone_result, long_result, hi_low_result, err,
          fp_outcome, first_run, mdc_result, dtmf_result, invoked, returned,
          mag, peak_bin, delta, loop_group, loop_t, timeline_len>>

\* Nothing computed yet.
Blank ==
    /\ matched_frequencies = <<>>
    /\ g1 = <<>>
    /\ g2 = <<>>
    /\ g3 = <<>>
    /\ pulsed_result = <<>>
    /\ two_tone_result = <<>>
    /\ long_result = <<>>
    /\ hi_low_result = <<>>
    /\ err = ""
    /\ first_run = <<>>
    /\ mdc_result = <<>>
    /\ dtmf_result = <<>>
    /\ invoked = <<>>
    /\ returned = FALSE
    /\ peak_bin = <<>>
    /\ delta = <<>>
    /\ loop_group = 0
    /\ loop_t = 0
    /\ timeline_len = 0

\* The grouper and the cascade, from the per-frame frequencies on.
Init ==
    /\ pc = "group"
    /\ \/ cfg = CompactConfig /\ detected \in FrameSeqs
       \/ cfg = DefaultConfig /\ detected \in Scenarios
    /\ rel_db = <<>>
    /\ peak_hz = <<>>
    /\ Blank
    /\ mag = <<>>
    /\ fp_outcome = <<>>

\* get_audio_frequencies on a clip, then the cascade.
InitFrontend ==
    /\ pc = "gate"
    /\ \/ cfg = CompactConfig /\ rel_db \in LevelSeqs
       \/ cfg = DefaultConfig /\ rel_db = ScenarioB
    /\ \E f \in GatePeaks : peak_hz = [k \in 1..Len(rel_db) |-> f]
    /\ detected = <<>>
    /\ Blank
    /\ mag = <<>>
    /\ fp_outcome = <<>>

\* tone_detect called with its defaults on a clip.
InitEntry ==
    /\ pc = "entry"
    /\ cfg = DefaultConfig
    /\ rel_db \in LevelSeqs \cup {ScenarioB}
    /\ \E f \in GatePeaks : peak_hz = [k \in 1..Len(rel_db) |-> f]
    /\ detected = <<>>
    /\ Blank
    /\ mag = <<>>
    /\ fp_outcome = <<>>

\* The call ends with exception e.
RaiseError(e) ==
    /\ pc' = "raised"
    /\ err' = e
    /\ UNCHANGED <<rerun, decoders, spectrum, timeline_loop,
                   cfg, rel_db, peak_hz, detected, matched_frequencies, g1, g2, g3,
                   pulsed_result, two_tone_result, long_result, hi_low_result>>

\* shutil.which("ffmpeg") is None raises FFmpegNotFoundError.
CheckFfmpeg ==
    /\ pc = "entry"
    /\ \E found \in BOOLEAN :
          IF found
          THEN /\ pc' = "load"
               /\ UNCHANGED <<rerun, decoders, spectrum, timeline_loop,
                              cfg, rel_db, peak_hz, detected, matched_frequencies, g1, g2, g3,
                              pulsed_result, two_tone_result, long_result, hi_low_result, err>>
          ELSE RaiseError("FFmpegNotFoundError")

\* What load_audio does: it returns, or raises one of the exceptions that
\* tone_detect turns into AudioLoadError.
LoadOutcomes ==
    {"ok", "ValueError", "FileNotFoundError", "RequestException", "RuntimeError", "Exception"}

LoadAudio ==
    /\ pc = "load"
    /\ \E outcome \in LoadOutcomes :
          IF outcome = "ok"
          THEN /\ pc' = "construct"
               /\ UNCHANGED <<rerun, decoders, spectrum, timeline_loop,
                              cfg, rel_db, peak_hz, detected, matched_frequencies, g1, g2, g3,
                              pulsed_result, two_tone_result, long_result, hi_low_result, err>>
          ELSE RaiseError("AudioLoadError")

\* The keyword arguments tone_detect passes to FrequencyExtraction.
FrontendKeywordsPassed ==
    {"fe_freq_band", "fe_merge_short_gaps_ms", "fe_silence_below_global_db",
     "fe_snr_above_noise_db", "fe_abs_cap_hz", "fe_force_split_step_hz",
     "fe_split_lookahead_frames"}

\* The keyword-only parameters of FrequencyExtraction.__init__.
FrontendKeywordsAccepted ==
    {"fe_freq_band", "fe_merge_short_gaps_ms", "fe_silence_below_global_db",
     "fe_snr_above_noise_db"}

\* FrequencyExtraction(...): a keyword the constructor does not declare is a
\* TypeError, which tone_detect re-raises as FrequencyExtractionError.
ConstructFrontend ==
    /\ pc = "construct"
    /\ IF FrontendKeywordsPassed \subseteq FrontendKeywordsAccepted
       THEN /\ pc' = "gate"
            /\ UNCHANGED <<rerun, decoders, spectrum, timeline_loop,
                           cfg, rel_db, peak_hz, detected, matched_frequencies, g1, g2, g3,
                           pulsed_result, two_tone_result, long_result, hi_low_result, err>>
       ELSE RaiseError("FrequencyExtractionError")

\* Steps 4 and 5 of get_audio_frequencies: gating and the per-frame frequency.
GateFrames ==
    /\ pc = "gate"
    /\ detected' = DetectedFrequencies(cfg, rel_db, peak_hz)
    /\ pc' = "group"
    /\ UNCHANGED <<rerun, decoders, spectrum, timeline_loop,
                   cfg, rel_db, peak_hz, matched_frequencies, g1, g2, g3,
                   pulsed_result, two_tone_result, long_result, hi_low_result, err>>

\* A detector's validation raised ValueError, which tone_detect lets through.
Raise == RaiseError("ValueError")

\* Step 6 of get_audio_frequencies: the frames are grouped.
GroupFramesStep ==
    /\ pc = "group"
    /\ matched_frequencies' = MatchFrequencies(cfg, detected)
    /\ pc' = "pulsed"
    /\ UNCHANGED <<rerun, decoders, spectrum, timeline_loop,
                   cfg, rel_db, peak_hz, detected, g1, g2, g3,
                   pulsed_result, two_tone_result, long_result, hi_low_result, err>>

\* 1) Pulsed first; its hit intervals are masked out of the groups.
StagePulsed ==
    /\ pc = "pulsed"
    /\ IF cfg.detect_pulsed /\ PulsedConfigError(cfg) THEN Raise
       ELSE /\ pulsed_result' =
                  IF cfg.detect_pulsed
                  THEN DetectPulsedSingleTone(cfg, matched_frequencies) ELSE <<>>
            /\ g1' = IF cfg.detect_pulsed
                     THEN FilterGroupsOutside(matched_frequencies,
                                              IntervalsFromHits(pulsed_result'),
                                              Guard(cfg), TRUE)
                     ELSE matched_frequencies
            /\ pc' = "two_tone"
            /\ UNCHANGED <<rerun, decoders, spectrum, timeline_loop,
                           cfg, rel_db, peak_hz, detected, matched_frequencies, g2, g3,
                           two_tone_result, long_result, hi_low_result, err>>

\* 2) Two-tone on the pulsed-filtered groups; the B windows are masked out.
\* The float comparisons that can fall on an equality are those of a duration
\* or gap with its threshold and of a group's edge with a widened B window.
StageTwoTone ==
    /\ pc = "two_tone"
    /\ IF cfg.detect_two_tone /\ TwoToneConfigError(cfg) THEN Raise
       ELSE \E fp_dur \in BOOLEAN, fp_win \in BOOLEAN :
            /\ fp_outcome \in {<<>>, <<fp_dur, fp_win>>}
            /\ two_tone_result' =
                  IF cfg.detect_two_tone THEN DetectTwoToneTones(cfg, g1, fp_dur) ELSE <<>>
            /\ g2' = IF cfg.detect_two_tone
                     THEN FilterGroupsOutside(g1,
                                              QcWindowsFromHits(two_tone_result', Guard(cfg)),
                                              Guard(cfg), fp_win)
                     ELSE g1
            /\ pc' = "long"
            /\ UNCHANGED <<rerun, decoders, spectrum, timeline_loop,
                           cfg, rel_db, peak_hz, detected, matched_frequencies, g1, g3,
                           pulsed_result, long_result, hi_low_result, err>>

\* A variant of the third stage that validates the long detector's parameters
\* whether or not the detector is enabled.
StageLongValidatingWhenDisabled ==
    /\ pc = "long"
    /\ IF LongConfigError(cfg) THEN Raise
       ELSE /\ long_result' = IF cfg.detect_long THEN DetectLongTones(cfg, g2) ELSE <<>>
            /\ g3' = IF cfg.detect_long
                     THEN FilterGroupsOutside(g2, IntervalsFromHits(long_result'),
                                              Guard(cfg), TRUE)
                     ELSE g2
            /\ pc' = "hi_low"
            /\ UNCHANGED <<rerun, decoders, spectrum, timeline_loop,
                           cfg, rel_db, peak_hz, detected, matched_frequencies, g1, g2,
                           pulsed_result, two_tone_result, hi_low_result, err>>

\* 3) Long on what is left; the long hits are masked out.
StageLong ==
    /\ pc = "long"
    /\ IF cfg.detect_long /\ LongConfigError(cfg) THEN Raise
       ELSE /\ long_result' = IF cfg.detect_long THEN DetectLongTones(cfg, g2) ELSE <<>>
            /\ g3' = IF cfg.detect_long
                     THEN FilterGroupsOutside(g2, IntervalsFromHits(long_result'),
                                              Guard(cfg), TRUE)
                     ELSE g2
            /\ pc' = "hi_low"
            /\ UNCHANGED <<rerun, decoders, spectrum, timeline_loop,
                           cfg, rel_db, peak_hz, detected, matched_frequencies, g1, g2,
                           pulsed_result, two_tone_result, hi_low_result, err>>

\* 4) Hi/Low on the groups with pulsed, B and long windows removed.
StageHiLow ==
    /\ pc = "hi_low"
    /\ IF cfg.detect_hi_low /\ WarbleConfigError(cfg) THEN Raise
       ELSE /\ hi_low_result' =
                  IF cfg.detect_hi_low THEN DetectWarbleTones(cfg, g3) ELSE <<>>
            /\ pc' = "done"
            /\ UNCHANGED <<rerun, decoders, spectrum, timeline_loop,
                           cfg, rel_db, peak_hz, detected, matched_frequencies, g1, g2, g3,
                           pulsed_result, two_tone_result, long_result, err>>

Next ==
    \/ GroupFramesStep
    \/ StagePulsed
    \/ StageTwoTone
    \/ StageLong
    \/ StageHiLow

Spec == Init /\ [][Next]_vars

NextFrontend ==
    \/ GateFrames
    \/ GroupFramesStep
    \/ StagePulsed
    \/ StageTwoTone
    \/ StageLong
    \/ StageHiLow

SpecFrontend == InitFrontend /\ [][NextFrontend]_vars

NextEntry ==
    \/ CheckFfmpeg
    \/ LoadAudio
    \/ ConstructFrontend

SpecEntry == InitEntry /\ [][NextEntry]_vars

\* ---------------------------------------------------------------- the frontend's peak search

\* The most frames of a clip analysed from its spectrum on.
MaxSpectrumFrames == 2

\* The clips have all their energy in three neighbouring bins of the STFT,
\* 796.875, 804.6875 and 812.5 Hz at the default resolution; every other bin
\* is at magnitude 0.
WindowBins == {102, 103, 104}

\* Magnitudes a decade apart, so that the levels are whole decibels.
Magnitudes == {0, 1, 10}

MagAt(col, k) == IF k \in WindowBins THEN col[k] ELSE 0

\* freqs: bin k is at k * fs / n_fft, for k = 0 .. n_fft / 2.
LastBin(c) == PickNfft(HopLength(c)) \div 2

\* band = (freqs >= fmin) & (freqs <= fmax), every bin if that is empty: the
\* first and the last bin of the band.  Frequencies in fu are
\* 20 * k * fs / n_fft.
SearchBand(c) ==
    LET n_fft == PickNfft(HopLength(c))
        scale == 20 * FrameRate
        lo == Max2(0, (c.fe_freq_band[1] * n_fft + scale - 1) \div scale)
        hi == Min2(LastBin(c), (c.fe_freq_band[2] * n_fft) \div scale)
    IN  IF lo > hi THEN <<0, LastBin(c)>> ELSE <<lo, hi>>

InSearchBand(c, k) == SearchBand(c)[1] <= k /\ k <= SearchBand(c)[2]

MinOf(S) == CHOOSE x \in S : \A y \in S : x <= y

MaxOf(S) == CHOOSE x \in S : \A y \in S : y <= x

\* bm.max(axis=0) of one column.
FramePeak(c, col) == MaxOf({MagAt(col, k) : k \in {j \in WindowBins : InSearchBand(c, j)}} \cup {0})

\* np.argmax(bm, axis=0) of one column, as a bin of the whole spectrum: the
\* first bin of the band that holds the largest magnitude.
PeakIdx(c, col) ==
    IF FramePeak(c, col) = 0 THEN SearchBand(c)[1]
    ELSE MinOf({k \in WindowBins : InSearchBand(c, k) /\ MagAt(col, k) = FramePeak(c, col)})

\* 20 * log10(frame_peak / global_peak + eps) in whole dB, for magnitudes of
\* Magnitudes: a frame without energy stands at eps.
RelDb(frame_peak, global_peak) ==
    IF frame_peak = 0 THEN (IF global_peak = 1 THEN -394 ELSE -399)
    ELSE IF frame_peak = global_peak THEN 0
    ELSE -20

\* _parabolic_interpolate followed by np.clip(delta, -0.5, 0.5): the offset
\* as a fraction <<numerator, denominator>> of a bin, denominator positive.
ParabolicInterpolate(y_minus, y0, y_plus) ==
    LET denom == y_minus - 2 * y0 + y_plus
        n == IF denom > 0 THEN y_minus - y_plus ELSE y_plus - y_minus
        d == 2 * Abs(denom)
    IN  IF denom = 0 THEN <<0, 1>>
        ELSE IF 2 * n > d THEN <<1, 2>>
        ELSE IF 2 * n < -d THEN <<-1, 2>>
        ELSE <<n, d>>

\* The offset of one column: the neighbours are those of the band, the peak
\* bin itself where the band ends (km = max(0, k0 - 1), kp = min(last, k0 + 1)).
Offset(c, col) ==
    LET k0 == PeakIdx(c, col)
        km == Max2(SearchBand(c)[1], k0 - 1)
        kp == Min2(SearchBand(c)[2], k0 + 1)
    IN  ParabolicInterpolate(MagAt(col, km), MagAt(col, k0), MagAt(col, kp))

\* bf[k0] + delta * df, to the nearest fu.
FHat(c, col) ==
    LET n_fft == PickNfft(HopLength(c))
        off == Offset(c, col)
        num == 20 * FrameRate * (PeakIdx(c, col) * off[2] + off[1])
        den == n_fft * off[2]
    IN  (num + den \div 2) \div den

\* The search band of the defaults, bands that begin or end inside the window,
\* and bands that are not low < high.
SpectrumBands ==
    {<<Hz(200), Hz(3000)>>, <<Hz(800), Hz(3000)>>, <<Hz(200), Hz(810)>>,
     <<Hz(3000), Hz(200)>>, <<Hz(800), Hz(800)>>}

\* Calls of which one parameter breaks a bound that a detector validates.
BoundViolations ==
    { [DefaultConfig EXCEPT !.pulsed_min_on_ms = 901],
      [DefaultConfig EXCEPT !.pulsed_min_off_ms = 351],
      [DefaultConfig EXCEPT !.pulsed_bw_hz = 0],
      [DefaultConfig EXCEPT !.two_tone_bw_hz = 0],
      [DefaultConfig EXCEPT !.long_tone_bw_hz = 0],
      [DefaultConfig EXCEPT !.hi_low_tone_bw_hz = -Hz(1)],
      [DefaultConfig EXCEPT !.pulsed_auto_center_band = <<Hz(3000), Hz(200)>>] }

\* get_audio_frequencies from the STFT magnitudes on, then the cascade.
InitSpectrum ==
    /\ pc = "stft"
    /\ cfg \in {[DefaultConfig EXCEPT !.fe_freq_band = b] : b \in SpectrumBands}
                 \cup BoundViolations
    /\ mag \in UNION {[1..n -> [WindowBins -> Magnitudes]] : n \in 0..MaxSpectrumFrames}
    /\ rel_db = <<>>
    /\ peak_hz = <<>>
    /\ detected = <<>>
    /\ Blank
    /\ fp_outcome = <<>>

\* Steps 3 to 5 of get_audio_frequencies, up to the gating: the band, the
\* levels, the dominant bin and its refinement.  Without a frame, or without
\* energy in the band, it returns [] and the cascade runs on no group.
AnalyseSpectrum ==
    /\ pc = "stft"
    /\ LET peaks == [t \in 1..Len(mag) |-> FramePeak(cfg, mag[t])]
           global_peak == MaxOf({peaks[t] : t \in 1..Len(mag)} \cup {0})
       IN  IF mag = <<>> \/ global_peak = 0
           THEN /\ pc' = "pulsed"
                /\ UNCHANGED <<rel_db, peak_hz, peak_bin, delta>>
           ELSE /\ rel_db' = [t \in 1..Len(mag) |-> RelDb(peaks[t], global_peak)]
                /\ peak_bin' = [t \in 1..Len(mag) |-> PeakIdx(cfg, mag[t])]
                /\ delta' = [t \in 1..Len(mag) |-> Offset(cfg, mag[t])]
                /\ peak_hz' = [t \in 1..Len(mag) |-> FHat(cfg, mag[t])]
                /\ pc' = "gate"
    /\ UNCHANGED <<rerun, decoders, timeline_loop, cfg, mag, detected, matched_frequencies,
                   g1, g2, g3, pulsed_result, two_tone_result, long_result,
                   hi_low_result, err>>

NextSpectrum ==
    \/ AnalyseSpectrum
    \/ NextFrontend

SpecSpectrum == InitSpectrum /\ [][NextSpectrum]_vars

\* ---------------------------------------------------------------- detectors switched off

\* The most frames of a clip analysed with some detectors disabled.
MaxFlagFrames == 5

\* The call with the given detectors enabled; every disabled detector is given
\* a parameter that its validation would refuse.  FlagConfigs adds a call with
\* an enabled detector that refuses its parameters.
FlagConfig(pulsed, two_tone, long, hi_low) ==
    [CompactConfig EXCEPT
        !.detect_pulsed = pulsed,
        !.detect_two_tone = two_tone,
        !.detect_long = long,
        !.detect_hi_low = hi_low,
        !.pulsed_bw_hz = IF pulsed THEN @ ELSE 0,
        !.two_tone_bw_hz = IF two_tone THEN @ ELSE 0,
        !.long_tone_min_length = IF long THEN @ ELSE 0,
        !.hi_low_min_alternations = IF hi_low THEN @ ELSE 1]

FlagConfigs ==
    {FlagConfig(p, q, l, h) : p \in BOOLEAN, q \in BOOLEAN, l \in BOOLEAN, h \in BOOLEAN}
        \cup {[CompactConfig EXCEPT !.long_tone_bw_hz = 0]}

\* tone_detect from the grouping on, with any of its tone detectors disabled.
InitFlags ==
    /\ pc = "group"
    /\ cfg \in FlagConfigs
    /\ detected \in UNION {[1..n -> {0, Hz(800), Hz(1200)}] : n \in 0..MaxFlagFrames}
    /\ rel_db = <<>>
    /\ peak_hz = <<>>
    /\ Blank
    /\ mag = <<>>
    /\ fp_outcome = <<>>

SpecFlags == InitFlags /\ [][Next]_vars

\* ---------------------------------------------------------------- the external decoders

\* The validation both decoder functions start with, on filter corners in Hz.
FilterError(highpass_freq, lowpass_freq) ==
    \/ highpass_freq < 0
    \/ lowpass_freq < 0
    \/ (0 < lowpass_freq /\ lowpass_freq <= highpass_freq)

\* What starting icad_decode and waiting for it can give: the process cannot
\* be started (OSError), or it runs and exits with a status after writing
\* lines, of which some are JSON objects and some are not.
DecoderLines == {<<>>, <<"frame">>, <<"noise", "frame">>, <<"frame", "noise", "frame">>}

DecoderRuns ==
    [started : {FALSE}, status : {0}, lines : {<<>>}]
        \cup [started : {TRUE}, status : {0, 1, 2}, lines : DecoderLines]

\* A variant that takes every exit status for a success.
DecoderNeverFailed(run) == FALSE

\* proc.returncode != 0
DecoderFailed(run) == run.status # 0

\* json.loads succeeds on the line.
IsJson(line) == line # "noise"

\* The objects of the lines that parse, in order.
DecodedLines(run) == SelectSeq(run.lines, IsJson)

\* len(segment) == 0 can only be if the clip gave no frame.
SegmentCanBeEmpty == IF detected = <<>> THEN BOOLEAN ELSE {FALSE}

\* A decoder ended the call: tone_detect raises ToneDetectionError from
\* whatever the decoder function raised.  log is the processes run so far.
DecoderRaise(log) ==
    /\ pc' = "raised"
    /\ err' = "ToneDetectionError"
    /\ invoked' = log
    /\ UNCHANGED <<rerun, spectrum, timeline_loop,
                   cfg, rel_db, peak_hz, detected, matched_frequencies, g1, g2, g3,
                   pulsed_result, two_tone_result, long_result, hi_low_result,
                   mdc_result, dtmf_result, returned>>

\* 5a) detect_mdc_tones on the raw audio, if enabled.
RunMdc ==
    /\ pc = "done"
    /\ IF ~cfg.detect_mdc
       THEN /\ pc' = "dtmf"
            /\ UNCHANGED <<rerun, decoders, spectrum, timeline_loop,
                           cfg, rel_db, peak_hz, detected, matched_frequencies,
                           g1, g2, g3, pulsed_result, two_tone_result, long_result,
                           hi_low_result, err>>
       ELSE \E empty \in SegmentCanBeEmpty, run \in DecoderRuns :
            IF FilterError(cfg.mdc_high_pass, cfg.mdc_low_pass) \/ empty \/ ~run.started
            THEN DecoderRaise(invoked)
            ELSE LET log == Append(invoked, [decoder |-> "mdc", status |-> run.status])
                 IN  IF DecoderFailed(run) THEN DecoderRaise(log)
                     ELSE /\ mdc_result' = DecodedLines(run)
                          /\ invoked' = log
                          /\ pc' = "dtmf"
                          /\ UNCHANGED <<rerun, spectrum, timeline_loop,
                                         cfg, rel_db, peak_hz, detected,
                                         matched_frequencies, g1, g2, g3, pulsed_result,
                                         two_tone_result, long_result, hi_low_result,
                                         dtmf_result, returned, err>>

\* 5b) detect_dtmf_tones on the raw audio, if enabled; its filters are off.
RunDtmf ==
    /\ pc = "dtmf"
    /\ IF ~cfg.detect_dtmf
       THEN /\ pc' = "return"
            /\ UNCHANGED <<rerun, decoders, spectrum, timeline_loop,
                           cfg, rel_db, peak_hz, detected, matched_frequencies,
                           g1, g2, g3, pulsed_result, two_tone_result, long_result,
                           hi_low_result, err>>
       ELSE \E empty \in SegmentCanBeEmpty, run \in DecoderRuns :
            IF FilterError(0, 0) \/ empty \/ ~run.started
            THEN DecoderRaise(invoked)
            ELSE LET log == Append(invoked, [decoder |-> "dtmf", status |-> run.status])
                 IN  IF DecoderFailed(run) THEN DecoderRaise(log)
                     ELSE /\ dtmf_result' = DecodedLines(run)
                          /\ invoked' = log
                          /\ pc' = "return"
                          /\ UNCHANGED <<rerun, spectrum, timeline_loop,
                                         cfg, rel_db, peak_hz, detected,
                                         matched_frequencies, g1, g2, g3, pulsed_result,
                                         two_tone_result, long_result, hi_low_result,
                                         mdc_result, returned, err>>

\* return ToneDetectionResult(...)
ReturnResult ==
    /\ pc = "return"
    /\ returned' = TRUE
    /\ pc' = "returned"
    /\ UNCHANGED <<rerun, spectrum, timeline_loop,
                   cfg, rel_db, peak_hz, detected, matched_frequencies, g1, g2, g3,
                   pulsed_result, two_tone_result, long_result, hi_low_result, err,
                   mdc_result, dtmf_result, invoked>>

\* The calls differ in which decoders they enable.
DecoderConfigs ==
    {[DefaultConfig EXCEPT !.detect_mdc = m, !.detect_dtmf = d] : m, d \in BOOLEAN}

\* tone_detect from the grouper on, decoders included.
InitDecoders ==
    /\ pc = "group"
    /\ cfg \in DecoderConfigs
    /\ detected \in Scenarios \cup {WarbleDrift, <<>>}
    /\ rel_db = <<>>
    /\ peak_hz = <<>>
    /\ Blank
    /\ mag = <<>>
    /\ fp_outcome = <<>>

NextDecoders ==
    \/ Next
    \/ RunMdc
    \/ RunDtmf
    \/ ReturnResult

SpecDecoders == InitDecoders /\ [][NextDecoders]_vars

\* ---------------------------------------------------------------- two calls on one input

\* The longest frame sequence analysed twice.
MaxTwiceFrames == 5

\* What one call computed.
Results ==
    [ matched_frequencies |-> matched_frequencies,
      pulsed_result |-> pulsed_result,
      two_tone_result |-> two_tone_result,
      long_result |-> long_result,
      hi_low_result |-> hi_low_result ]

\* The grouper and the cascade on an input whose float comparisons fall one
\* way or the other at an equality, the same way in every call.
InitTwice ==
    /\ pc = "group"
    /\ \/ /\ cfg = CompactConfig
          /\ detected \in UNION {[1..n -> Tones] : n \in 0..MaxTwiceFrames}
       \/ /\ cfg = DefaultConfig
          /\ detected \in Scenarios
    /\ rel_db = <<>>
    /\ peak_hz = <<>>
    /\ Blank
    /\ mag = <<>>
    /\ fp_outcome \in BOOLEAN \X BOOLEAN

\* The caller keeps the results and calls again with the same frames and the
\* same configuration: nothing of the first call is left but what it returned.
RunAgain ==
    /\ pc = "done"
    /\ first_run = <<>>
    /\ first_run' = Results
    /\ pc' = "group"
    /\ matched_frequencies' = <<>>
    /\ g1' = <<>>
    /\ g2' = <<>>
    /\ g3' = <<>>
    /\ pulsed_result' = <<>>
    /\ two_tone_result' = <<>>
    /\ long_result' = <<>>
    /\ hi_low_result' = <<>>
    /\ UNCHANGED <<decoders, spectrum, timeline_loop,
                   cfg, rel_db, peak_hz, detected, err, fp_outcome>>

NextTwice ==
    \/ Next
    \/ RunAgain

SpecTwice == InitTwice /\ [][NextTwice]_vars

\* ---------------------------------------------------------------- the grouper alone

\* The longest frame sequence handed to the grouper alone.
MaxGrouperFrames == 5

\* The frontend's frames are interpolated peaks, not multiples of 0.1 Hz:
\* 800.05 Hz stands for them (round(800.05, 1) is 800.0).
GrouperTones == Tones \cup {Hz(800) + 1}

\* The compact thresholds with the merging pass enabled, for gaps up to 50 ms.
MergeConfig == [CompactConfig EXCEPT !.fe_merge_short_gaps_ms = 50]

\* Frames a step of 18 Hz apart (within 2.5 % of 800 Hz, above 12 and 15 Hz),
\* and three and four tones in a row that the grouping loop keeps apart.
GrouperScenarios ==
    {<<Hz(800), Hz(818)>>, <<Hz(800), Hz(818), Hz(818)>>, <<Hz(800), Hz(800), Hz(818), Hz(818)>>,
     <<Hz(800), Hz(1200), Hz(800)>>, <<Hz(800), Hz(1200), Hz(800), Hz(1200)>>}

\* match_frequencies on a frame sequence, with and without the merging pass.
InitGrouper ==
    /\ pc = "group"
    /\ cfg \in {CompactConfig, MergeConfig}
    /\ detected \in UNION {[1..n -> GrouperTones] : n \in 0..MaxGrouperFrames}
                      \cup GrouperScenarios
    /\ rel_db = <<>>
    /\ peak_hz = <<>>
    /\ Blank
    /\ mag = <<>>
    /\ fp_outcome = <<>>

NextGrouper == GroupFramesStep

SpecGrouper == InitGrouper /\ [][NextGrouper]_vars

\* ---------------------------------------------------------------- the detectors, one by one

\* Each detector called on the same group list: a grouper output, whole or
\* with one group masked out.
InitDetectors ==
    /\ pc = "detect_pulsed"
    /\ \/ /\ cfg \in {DetectorsConfig, ZeroCyclesConfig}
          /\ \E frames \in ListFrameSeqs :
                 \E k \in 0..Len(MatchFrequencies(cfg, frames)) :
                     matched_frequencies = DropGroup(MatchFrequencies(cfg, frames), k)
       \/ /\ cfg = DefaultConfig
          /\ \E frames \in Scenarios \cup {WarbleDrift} :
                 matched_frequencies = MatchFrequencies(cfg, frames)
       \/ /\ cfg = SingleFrameConfig
          /\ \E frames \in UNION {[1..n -> Tones] : n \in 1..2} :
                 matched_frequencies = MatchFrequencies(cfg, frames)
    /\ rel_db = <<>>
    /\ peak_hz = <<>>
    /\ detected = <<>>
    /\ g1 = <<>>
    /\ g2 = <<>>
    /\ g3 = <<>>
    /\ pulsed_result = <<>>
    /\ two_tone_result = <<>>
    /\ long_result = <<>>
    /\ hi_low_result = <<>>
    /\ err = ""
    /\ fp_outcome = <<>>
    /\ first_run = <<>>
    /\ mdc_result = <<>>
    /\ dtmf_result = <<>>
    /\ invoked = <<>>
    /\ returned = FALSE
    /\ mag = <<>>
    /\ peak_bin = <<>>
    /\ delta = <<>>
    /\ loop_group = 0
    /\ loop_t = 0
    /\ timeline_len = 0

CallPulsed ==
    /\ pc = "detect_pulsed"
    /\ IF PulsedConfigError(cfg) THEN Raise
       ELSE /\ pulsed_result' = DetectPulsedSingleTone(cfg, matched_frequencies)
            /\ pc' = "detect_two_tone"
            /\ UNCHANGED <<rerun, decoders, spectrum, timeline_loop,
                           cfg, rel_db, peak_hz, detected, matched_frequencies, g1, g2, g3,
                           two_tone_result, long_result, hi_low_result, err>>

CallTwoTone ==
    /\ pc = "detect_two_tone"
    /\ IF TwoToneConfigError(cfg) THEN Raise
       ELSE \E fp_dur \in BOOLEAN :
            /\ two_tone_result' = DetectTwoToneTones(cfg, matched_frequencies, fp_dur)
            /\ pc' = "detect_long"
            /\ UNCHANGED <<rerun, decoders, spectrum, timeline_loop,
                           cfg, rel_db, peak_hz, detected, matched_frequencies, g1, g2, g3,
                           pulsed_result, long_result, hi_low_result, err>>

CallLong ==
    /\ pc = "detect_long"
    /\ IF LongConfigError(cfg) THEN Raise
       ELSE /\ long_result' = DetectLongTones(cfg, matched_frequencies)
            /\ pc' = "detect_warble"
            /\ UNCHANGED <<rerun, decoders, spectrum, timeline_loop,
                           cfg, rel_db, peak_hz, detected, matched_frequencies, g1, g2, g3,
                           pulsed_result, two_tone_result, hi_low_result, err>>

CallWarble ==
    /\ pc = "detect_warble"
    /\ IF WarbleConfigError(cfg) THEN Raise
       ELSE /\ hi_low_result' = DetectWarbleTones(cfg, matched_frequencies)
            /\ pc' = "detected"
            /\ UNCHANGED <<rerun, decoders, spectrum, timeline_loop,
                           cfg, rel_db, peak_hz, detected, matched_frequencies, g1, g2, g3,
                           pulsed_result, two_tone_result, long_result, err>>

NextDetectors ==
    \/ CallPulsed
    \/ CallTwoTone
    \/ CallLong
    \/ CallWarble

SpecDetectors == InitDetectors /\ [][NextDetectors]_vars

\* ---------------------------------------------------------------- the pulsed timeline in steps

\* The longest frame sequence behind a group list of a step-by-step call.
MaxTimelineFrames == 5

\* The count of timeline points is kept up to this many; a longer timeline
\* counts as this long.
MaxTimelinePoints == 12

\* The instant of the timeline loop is kept down to this many ms before 0; an
\* earlier instant counts as that one.
MaxLoopBack == 200

\* detect_pulsed_single_tone, then detect_warble_tones, on a group list of
\* the grouper at 50 ms, with a time_resolution_ms of 50, 25, 0 or -50: the
\* detector validates none of them.
InitTimeline ==
    /\ pc = "detect_pulsed"
    /\ \E r \in {50, 25, 0, -50} : cfg = [ZeroCyclesConfig EXCEPT !.time_resolution_ms = r]
    /\ \E frames \in UNION {[1..n -> {0, Hz(1000)}] : n \in 0..MaxTimelineFrames} :
           matched_frequencies = MatchFrequencies(ZeroCyclesConfig, frames)
    /\ rel_db = <<>>
    /\ peak_hz = <<>>
    /\ detected = <<>>
    /\ g1 = <<>>
    /\ g2 = <<>>
    /\ g3 = <<>>
    /\ pulsed_result = <<>>
    /\ two_tone_result = <<>>
    /\ long_result = <<>>
    /\ hi_low_result = <<>>
    /\ err = ""
    /\ first_run = <<>>
    /\ fp_outcome = <<>>
    /\ mdc_result = <<>>
    /\ dtmf_result = <<>>
    /\ invoked = <<>>
    /\ returned = FALSE
    /\ mag = <<>>
    /\ peak_bin = <<>>
    /\ delta = <<>>
    /\ loop_group = 0
    /\ loop_t = 0
    /\ timeline_len = 0

\* The entry of detect_pulsed_single_tone: the validation, the return of []
\* for no groups, and the start of the for loop over the groups.
EnterPulsed ==
    /\ pc = "detect_pulsed"
    /\ IF PulsedConfigError(cfg) THEN Raise
       ELSE /\ IF matched_frequencies = <<>>
               THEN /\ pc' = "detect_warble"
                    /\ UNCHANGED timeline_loop
               ELSE /\ pc' = "timeline"
                    /\ loop_group' = 1
                    /\ loop_t' = matched_frequencies[1].s
                    /\ timeline_len' = 0
            /\ UNCHANGED <<rerun, decoders, spectrum, cfg, rel_db, peak_hz, detected,
                           matched_frequencies, g1, g2, g3, pulsed_result,
                           two_tone_result, long_result, hi_low_result, err>>

\* One test of "while t < end - 1e-12" for the current group: the body is
\* entered, or the for loop goes to the next group, or it is over.
TimelineTest ==
    /\ pc = "timeline"
    /\ IF loop_t < matched_frequencies[loop_group].e
       THEN /\ pc' = "append"
            /\ UNCHANGED timeline_loop
       ELSE IF loop_group < Len(matched_frequencies)
       THEN /\ loop_group' = loop_group + 1
            /\ loop_t' = matched_frequencies[loop_group + 1].s
            /\ UNCHANGED <<pc, timeline_len>>
       ELSE /\ pc' = "scan"
            /\ UNCHANGED timeline_loop
    /\ UNCHANGED <<rerun, decoders, spectrum, cfg, rel_db, peak_hz, detected,
                   matched_frequencies, g1, g2, g3, pulsed_result,
                   two_tone_result, long_result, hi_low_result, err>>

\* The body of the while loop: a point is appended and t moves on by the step.
TimelineAppend ==
    /\ pc = "append"
    /\ timeline_len' = Min2(timeline_len + 1, MaxTimelinePoints)
    /\ loop_t' = Max2(loop_t + cfg.time_resolution_ms, -MaxLoopBack)
    /\ pc' = "timeline"
    /\ UNCHANGED <<rerun, decoders, spectrum, loop_group, cfg, rel_db, peak_hz, detected,
                   matched_frequencies, g1, g2, g3, pulsed_result,
                   two_tone_result, long_result, hi_low_result, err>>

\* The rest of detect_pulsed_single_tone, once the timeline is built: the
\* center, the runs and the scan for cycles.
ScanPulsed ==
    /\ pc = "scan"
    /\ pulsed_result' = DetectPulsedSingleTone(cfg, matched_frequencies)
    /\ pc' = "detect_warble"
    /\ UNCHANGED <<rerun, decoders, spectrum, timeline_loop,
                   cfg, rel_db, peak_hz, detected, matched_frequencies, g1, g2, g3,
                   two_tone_result, long_result, hi_low_result, err>>

NextTimeline ==
    \/ EnterPulsed
    \/ TimelineTest
    \/ TimelineAppend
    \/ ScanPulsed
    \/ CallWarble

SpecTimeline == InitTimeline /\ [][NextTimeline]_vars

\* The interpreter runs the next statement of the call as long as there is
\* one.  A test or a body of the while loop that can be run is not put off
\* forever, and the call does not rest before the entry, the scan or the
\* warble detector, each of which is a single step that is always possible
\* and moves pc on.
SpecTimelineFair ==
    /\ SpecTimeline
    /\ WF_vars(TimelineTest)
    /\ WF_vars(TimelineAppend)
    /\ WF_vars(EnterPulsed)
    /\ WF_vars(CallWarble)
    /\ []<>(pc # "scan")

\* ---------------------------------------------------------------- properties

\* Hit h1 and hit h2 share more than the guard: the length of the intersection
\* of [start, end] intervals, in half-milliseconds, against the half hop.
OverlapBeyondGuard(h1, h2) ==
    2 * (Min2(h1.end, h2.end) - Max2(h1.start, h2.start)) > Guard(cfg)

HitsApart(hits1, hits2) ==
    \A i \in 1..Len(hits1), j \in 1..Len(hits2) : ~OverlapBeyondGuard(hits1[i], hits2[j])

\* a is an order-preserving sub-list of b.
RECURSIVE IsSubSeq(_, _)
IsSubSeq(a, b) ==
    IF a = <<>> THEN TRUE
    ELSE IF b = <<>> THEN FALSE
    ELSE IF a[1] = b[1] THEN IsSubSeq(Tail(a), Tail(b))
    ELSE IsSubSeq(a, Tail(b))

\* Group g and the window [s_ms, e_ms] overlap within the half-hop guard, in
\* exact arithmetic.
TouchesWithinGuard(g, s_ms, e_ms) ==
    ~(2 * g.e + Guard(cfg) <= 2 * s_ms \/ 2 * e_ms + Guard(cfg) <= 2 * g.s)

\* No group of the list touches a hit interval of hits.
ClearOfHits(groups, hits) ==
    \A k \in 1..Len(groups), h \in 1..Len(hits) :
        ~TouchesWithinGuard(groups[k], hits[h].start, hits[h].end)

\* No group of the list touches the B window of a two-tone hit.
ClearOfBWindows(groups, qc_hits) ==
    \A k \in 1..Len(groups), h \in 1..Len(qc_hits) :
        ~TouchesWithinGuard(groups[k], qc_hits[h].end - qc_hits[h].tone_b_length,
                            qc_hits[h].end)

AfterPulsed == pc \in {"two_tone", "long", "hi_low", "done"}

AfterTwoTone == pc \in {"long", "hi_low", "done"}

AfterLong == pc \in {"hi_low", "done"}

\* C1: a call of tone_detect with its default configuration, on audio that
\* load_audio has loaded, does not end in FrequencyExtractionError.
C1_DefaultCallExtracts == ~(pc = "raised" /\ err = "FrequencyExtractionError")

\* C2: after the cascade with all four detectors enabled, no two hits of
\* different detectors overlap by more than the guard.
C2_HitsOfDifferentDetectorsApart ==
    (/\ pc = "done"
     /\ cfg.detect_pulsed /\ cfg.detect_two_tone /\ cfg.detect_long /\ cfg.detect_hi_low)
    => /\ HitsApart(pulsed_result, two_tone_result)
       /\ HitsApart(pulsed_result, long_result)
       /\ HitsApart(pulsed_result, hi_low_result)
       /\ HitsApart(two_tone_result, long_result)
       /\ HitsApart(two_tone_result, hi_low_result)
       /\ HitsApart(long_result, hi_low_result)

\* C3: the group list each stage hands on is an order-preserving sub-list of
\* the list the stage received, and none of its groups touches, within the
\* guard, a pulsed hit, the B window of a two-tone hit, or a long hit found so far.
C3_MaskedListsAreClearSubLists ==
    /\ AfterPulsed => /\ IsSubSeq(g1, matched_frequencies)
                      /\ ClearOfHits(g1, pulsed_result)
    /\ AfterTwoTone => /\ IsSubSeq(g2, g1)
                       /\ ClearOfHits(g2, pulsed_result)
                       /\ ClearOfBWindows(g2, two_tone_result)
    /\ AfterLong => /\ IsSubSeq(g3, g2)
                    /\ ClearOfHits(g3, pulsed_result)
                    /\ ClearOfBWindows(g3, two_tone_result)
                    /\ ClearOfHits(g3, long_result)

\* The cascade has finished, and both the B-window mask and the long mask
\* have removed groups.
C3_Witness ==
    /\ pc = "done"
    /\ two_tone_result # <<>>
    /\ long_result # <<>>
    /\ Len(g2) < Len(g1)
    /\ Len(g3) < Len(g2)

\* C4: after the Two-Tone stage the A group of every two-tone hit is still in
\* the list given to Long and Warble, and every group the stage removed
\* overlaps the B window of a hit.
C4_OnlyBWindowMasked ==
    (AfterTwoTone /\ cfg.detect_two_tone)
    => /\ \A h \in 1..Len(two_tone_result) :
              \E k \in 1..Len(g2) :
                  /\ g2[k].s = two_tone_result[h].start
                  /\ g2[k].d = two_tone_result[h].tone_a_length
       /\ \A k \in 1..Len(g1) :
              (\A m \in 1..Len(g2) : g2[m] # g1[k])
              => \E h \in 1..Len(two_tone_result) :
                     TouchesWithinGuard(g1[k],
                         two_tone_result[h].end - two_tone_result[h].tone_b_length,
                         two_tone_result[h].end)

\* The instant t (ms) lies in the [start, end) of a group of the list.
InSomeGroup(groups, t) == \E k \in 1..Len(groups) : groups[k].s <= t /\ t < groups[k].e

\* [start, end) of the hit lies in the union of the groups' [start, end): the
\* union misses a point of it only if it misses the hit's start or the end of
\* a group inside it.
HitCovered(groups, hit) ==
    /\ InSomeGroup(groups, hit.start)
    /\ \A k \in 1..Len(groups) :
           (hit.start <= groups[k].e /\ groups[k].e < hit.end)
           => InSomeGroup(groups, groups[k].e)

HitsCovered(groups, hits) == \A h \in 1..Len(hits) : HitCovered(groups, hits[h])

\* C5: every hit interval of a detector lies in the union of the intervals of
\* the groups that were passed to that detector.
C5_HitsWithinVisibleGroups ==
    /\ AfterPulsed => HitsCovered(matched_frequencies, pulsed_result)
    /\ AfterTwoTone => HitsCovered(g1, two_tone_result)
    /\ AfterLong => HitsCovered(g2, long_result)
    /\ pc = "done" => HitsCovered(g3, hi_low_result)

\* C6: Scenario D through the cascade with the default configuration
\* (hi_low_interval 0.2 s, 6 alternations, pulsed enabled): hi_low holds
\* exactly one hit, detected [800.0, 1200.0], with at least 6 alternations.
C6_ScenarioDWarbles ==
    (pc = "done" /\ cfg = DefaultConfig /\ detected = ScenarioD)
    => /\ Len(hi_low_result) = 1
       /\ hi_low_result[1].detected = <<Hz(800), Hz(1200)>>
       /\ hi_low_result[1].alternations >= 6

\* C7: Scenario B, a 5 s tone of 1200 Hz whose every frame is at the global
\* peak, with the default gating and long_tone_min_length 3.8 s: no frame is
\* gated OFF, there is exactly one long hit, at 1200 Hz and at least 3.8 s
\* long, and pulsed, two_tone and hi_low are empty.
C7_ScenarioBLongTone ==
    (pc = "done" /\ cfg = DefaultConfig /\ rel_db = ScenarioB /\ peak_hz[1] = Hz(1200))
    => /\ \A t \in 1..Len(detected) : detected[t] # 0
       /\ Len(long_result) = 1
       /\ long_result[1].detected = Hz(1200)
       /\ long_result[1].length >= 3800
       /\ pulsed_result = <<>>
       /\ two_tone_result = <<>>
       /\ hi_low_result = <<>>

\* C8: Scenario F through the cascade with the default configuration: exactly
\* one two_tone hit and exactly one long hit, whose intervals do not overlap.
C8_ScenarioFMixed ==
    (pc = "done" /\ cfg = DefaultConfig /\ detected = ScenarioF)
    => /\ Len(two_tone_result) = 1
       /\ Len(long_result) = 1
       /\ \/ two_tone_result[1].end <= long_result[1].start
          \/ long_result[1].end <= two_tone_result[1].start

\* C9: Scenario E through the cascade with the default configuration (50 ms
\* hop): exactly one pulsed hit, at 1000.0 Hz, with at least 6 cycles, an ON
\* median of 300 ms and an OFF median of 100 ms; long and hi_low are empty.
C9_ScenarioEPulsed ==
    (pc = "done" /\ cfg = DefaultConfig /\ detected = ScenarioE)
    => /\ Len(pulsed_result) = 1
       /\ pulsed_result[1].detected = Hz(1000)
       /\ pulsed_result[1].cycles >= 6
       /\ pulsed_result[1].on_ms_median = 300
       /\ pulsed_result[1].off_ms_median = 100
       /\ long_result = <<>>
       /\ hi_low_result = <<>>

\* The cascade has finished on Scenario E and the pulsed detector has reported.
C9_Witness ==
    /\ pc = "done"
    /\ cfg = DefaultConfig
    /\ detected = ScenarioE
    /\ pulsed_result # <<>>

\* Groups a..b of the list are a warble run: stable non-zero groups, every gap
\* at most hi_low_interval, centers alternating between the first two, which
\* are separated by the minimum, and at least hi_low_min_alternations groups.
IsWarbleRun(groups, a, b) ==
    LET tone(k) == GroupCenter(groups[IF (k - a) % 2 = 0 THEN a ELSE a + 1])
    IN  /\ a < b
        /\ b - a + 1 >= cfg.hi_low_min_alternations
        /\ \A k \in a..b : /\ groups[k].f[1] > 0
                           /\ GroupIsStable(groups[k], cfg.hi_low_tone_bw_hz)
        /\ \A k \in a..(b - 1) : groups[k + 1].s - groups[k].e <= cfg.hi_low_interval
        /\ SeparatedEnough(GroupCenter(groups[a]), GroupCenter(groups[a + 1]),
                           cfg.hi_low_min_pair_separation_hz)
        /\ \A k \in a..b : Abs(GroupCenter(groups[k]) - tone(k)) <= cfg.hi_low_tone_bw_hz

\* A warble run that neither the group before it nor the group after it extends.
IsMaximalWarbleRun(groups, a, b) ==
    /\ IsWarbleRun(groups, a, b)
    /\ ~(a > 1 /\ IsWarbleRun(groups, a - 1, b))
    /\ ~(b < Len(groups) /\ IsWarbleRun(groups, a, b + 1))

\* C10: detect_warble_tones reports one hit for every maximal warble run of
\* the list it is given, whatever precedes or follows the run.
C10_EveryMaximalRunReported ==
    pc = "done"
    => \A a \in 1..Len(g3), b \in 1..Len(g3) :
           IsMaximalWarbleRun(g3, a, b)
           => Cardinality({h \in 1..Len(hi_low_result) :
                              /\ hi_low_result[h].start = g3[a].s
                              /\ hi_low_result[h].end = g3[b].e}) = 1

\* ---------------------------------------------------------------- each detector's hits

\* C11: every hi_low hit reports two frequencies at least
\* min_pair_separation_hz apart.
C11_WarblePairSeparated ==
    \A k \in 1..Len(hi_low_result) :
        hi_low_result[k].detected[2] - hi_low_result[k].detected[1]
            >= cfg.hi_low_min_pair_separation_hz

\* The groups of the list that lie within a hit's interval: the groups of the
\* run (or pair, or pulse train) the hit was made from.
GroupsWithin(groups, h) ==
    LET Inside(g) == h.start <= g.s /\ g.e <= h.end
    IN  SelectSeq(groups, Inside)

\* C12: a hi_low hit's alternations is the number of groups of its run and
\* is at least min_alternations, and consecutive groups of the run are at
\* most interval_length apart.
C12_WarbleRunCountedAndClose ==
    pc = "detected" =>
        \A k \in 1..Len(hi_low_result) :
            LET h == hi_low_result[k]
                run == GroupsWithin(matched_frequencies, h)
            IN  /\ h.alternations = Len(run)
                /\ h.alternations >= cfg.hi_low_min_alternations
                /\ \A j \in 1..(Len(run) - 1) :
                       run[j + 1].s - run[j].e <= cfg.hi_low_interval

\* A hit whose run has a hole: two of its groups are apart.
C12_Witness ==
    /\ pc = "detected"
    /\ \E k \in 1..Len(hi_low_result) :
           LET run == GroupsWithin(matched_frequencies, hi_low_result[k])
           IN  \E j \in 1..(Len(run) - 1) : run[j + 1].s > run[j].e

\* Groups a and b of the list are the A and B tones of two_tone hit h.
IsPairOfHit(groups, a, b, h) ==
    /\ a < b
    /\ groups[a].s = h.start
    /\ groups[b].e = h.end
    /\ h.tone_a_length = groups[a].d
    /\ h.tone_b_length = groups[b].d

\* C13: every two_tone hit is made of an A group and a later B group of the
\* list: both lengths reach their minimum, the gap from A's end to B's start
\* is at most max_gap_between_a_b, the centers are at least
\* min_pair_separation_hz apart, and the hit runs from A's start to B's end.
C13_TwoToneHitWithinLimits ==
    pc \in {"detect_long", "detect_warble", "detected"} =>
        \A k \in 1..Len(two_tone_result) :
            LET h == two_tone_result[k]
            IN  \E a, b \in 1..Len(matched_frequencies) :
                   LET A == matched_frequencies[a]
                       B == matched_frequencies[b]
                   IN  /\ IsPairOfHit(matched_frequencies, a, b, h)
                       /\ h.tone_a_length >= cfg.tone_a_min_length
                       /\ h.tone_b_length >= cfg.tone_b_min_length
                       /\ B.s - A.e <= cfg.two_tone_max_gap_between_a_b
                       /\ Abs(GroupCenter(B) - GroupCenter(A))
                              >= cfg.two_tone_min_pair_separation_hz
                       /\ h.detected = <<RoundTenth(GroupCenter(A)), RoundTenth(GroupCenter(B))>>

\* A hit whose B tone starts after a silence, at the gap limit.
C13_Witness ==
    /\ pc = "detect_long"
    /\ \E k \in 1..Len(two_tone_result) :
           \E a, b \in 1..Len(matched_frequencies) :
               /\ IsPairOfHit(matched_frequencies, a, b, two_tone_result[k])
               /\ matched_frequencies[b].s - matched_frequencies[a].e
                      = cfg.two_tone_max_gap_between_a_b

\* The ON/OFF runs the pulsed detector scans for a group list.
RunsOfList(c, groups) ==
    LET timeline == Timeline(c, groups, 1)
        center == CenterHz(c, groups, timeline)
    IN  IF center = <<>> THEN <<>> ELSE Runs(c, center[1], timeline)

\* The cycles and the ON and OFF durations recorded for pulsed hit h: those
\* accumulated from the ON run the hit starts at.
RecordedForHit(c, groups, h) ==
    LET runs == RunsOfList(c, groups)
        i == CHOOSE i \in 1..Len(runs) :
                 runs[i].st = "on" /\ RoundCs(runs[i].start) = h.start
    IN  PulsedCycles(c, runs, i, 0, <<>>, <<>>)

InRange(x, lo, hi) == lo <= x /\ x <= hi

\* Every recorded ON and OFF duration of hit h is within its bounds, and h's
\* cycles reach min_cycles.
CadenceWithinBounds(c, groups, h) ==
    LET r == RecordedForHit(c, groups, h)
    IN  /\ h.cycles = r.cycles
        /\ h.cycles >= c.pulsed_min_cycles
        /\ \A k \in 1..Len(r.on_ms_list) :
               InRange(r.on_ms_list[k], c.pulsed_min_on_ms, c.pulsed_max_on_ms)
        /\ \A k \in 1..Len(r.off_ms_list) :
               InRange(r.off_ms_list[k], c.pulsed_min_off_ms, c.pulsed_max_off_ms)

MediansWithinBounds(c, h) ==
    /\ InRange(h.on_ms_median, c.pulsed_min_on_ms, c.pulsed_max_on_ms)
    /\ InRange(h.off_ms_median, c.pulsed_min_off_ms, c.pulsed_max_off_ms)

\* C14, as stated: every pulsed hit has cycles >= min_cycles, recorded ON and
\* OFF durations within their bounds, and both medians within those bounds.
C14_PulsedCadenceAndMedians ==
    pc # "detect_pulsed" =>
        \A k \in 1..Len(pulsed_result) :
            /\ CadenceWithinBounds(cfg, matched_frequencies, pulsed_result[k])
            /\ MediansWithinBounds(cfg, pulsed_result[k])

\* C14, amended: every pulsed hit has cycles >= min_cycles and recorded ON and
\* OFF durations within their bounds; both medians are within those bounds
\* when the hit has at least one cycle.
C14_PulsedCadenceAndMediansOfCycles ==
    pc # "detect_pulsed" =>
        \A k \in 1..Len(pulsed_result) :
            /\ CadenceWithinBounds(cfg, matched_frequencies, pulsed_result[k])
            /\ pulsed_result[k].cycles >= 1
                   => MediansWithinBounds(cfg, pulsed_result[k])

\* A hit of two cycles or more whose ON durations differ.
C14_Witness ==
    /\ pc = "detect_two_tone"
    /\ \E k \in 1..Len(pulsed_result) :
           LET r == RecordedForHit(cfg, matched_frequencies, pulsed_result[k])
           IN  /\ pulsed_result[k].cycles >= 2
               /\ \E a, b \in 1..Len(r.on_ms_list) : r.on_ms_list[a] # r.on_ms_list[b]

\* The stable non-zero groups that last min_duration or more and whose median
\* is strictly above min_freq_hz, in the order of the list.
LongQualifying(c, groups) ==
    LET Qualifies(g) == /\ g.f # <<>>
                        /\ g.f[1] > 0
                        /\ GroupIsStable(g, c.long_tone_bw_hz)
                        /\ g.d >= c.long_tone_min_length
                        /\ Median(g.f) > c.fe_freq_band[1]
    IN  SelectSeq(groups, Qualifies)

\* One hit per qualifying group, in order, over the group's interval.
OneLongHitEach(c, groups, hits) ==
    LET q == LongQualifying(c, groups)
    IN  /\ Len(hits) = Len(q)
        /\ \A k \in 1..Len(hits) :
               /\ hits[k].start = q[k].s
               /\ hits[k].end = q[k].e
               /\ hits[k].length = q[k].d
               /\ hits[k].length >= c.long_tone_min_length

RECURSIVE ConcatFreqs(_, _)
ConcatFreqs(groups, i) ==
    IF i > Len(groups) THEN <<>> ELSE groups[i].f \o ConcatFreqs(groups, i + 1)

\* Groups in time order, none empty in time, none overlapping the next.
GroupsInTimeOrder(groups) ==
    /\ \A k \in 1..Len(groups) : groups[k].e > groups[k].s
    /\ \A k \in 1..(Len(groups) - 1) : groups[k].e <= groups[k + 1].s

\* The time of every one of the n frames lies in exactly one group.
EveryFrameInOneGroup(c, groups, n) ==
    \A i \in 1..n :
        Cardinality({k \in 1..Len(groups) :
                        groups[k].s <= FrameTime(c, i) /\ FrameTime(c, i) < groups[k].e}) = 1

\* C16, as stated: the groups are in time order with end_s > start_s and
\* groups[i].end_s <= groups[i+1].start_s, every input frame belongs to
\* exactly one group, and the groups' freqs lists, concatenated, are the input
\* frame sequence.
C16_GroupsPartitionTheFrames ==
    pc = "pulsed" =>
        /\ GroupsInTimeOrder(matched_frequencies)
        /\ EveryFrameInOneGroup(cfg, matched_frequencies, Len(detected))
        /\ ConcatFreqs(matched_frequencies, 1) = detected

\* C16, amended: the same, with the concatenation equal to the input frame
\* sequence rounded frame by frame to 0.1 Hz.
C16_GroupsPartitionTheRoundedFrames ==
    pc = "pulsed" =>
        /\ GroupsInTimeOrder(matched_frequencies)
        /\ EveryFrameInOneGroup(cfg, matched_frequencies, Len(detected))
        /\ ConcatFreqs(matched_frequencies, 1)
               = [i \in 1..Len(detected) |-> RoundTenth(detected[i])]

\* Three groups or more made from frames of which one is off the 0.1 Hz grid.
C16_Witness ==
    /\ pc = "pulsed"
    /\ Len(matched_frequencies) >= 3
    /\ \E i \in 1..Len(detected) : detected[i] # RoundTenth(detected[i])

\* All frames of the group zero, or all non-zero.
OnePolarity(g) ==
    \/ \A j \in 1..Len(g.f) : g.f[j] = 0
    \/ \A j \in 1..Len(g.f) : g.f[j] # 0

\* Every frame of the group is within the grouping tolerance of the frame
\* before it.
WithinTolerance(c, g) ==
    \A j \in 2..Len(g.f) :
        1000 * Abs(g.f[j] - g.f[j - 1]) <= DynamicThreshold(c, g.f, j)

\* C17: with the merging pass disabled or enabled, every group has frames of
\* one polarity, and consecutive frames of an ON group differ by at most the
\* grouping tolerance.
C17_GroupsOfOnePolarityWithinTolerance ==
    pc = "pulsed" =>
        \A k \in 1..Len(matched_frequencies) :
            /\ OnePolarity(matched_frequencies[k])
            /\ matched_frequencies[k].f[1] # 0
                   => WithinTolerance(cfg, matched_frequencies[k])

\* ---------------------------------------------------------------- a call repeated

ReverseSeq(s) == [k \in 1..Len(s) |-> s[Len(s) + 1 - k]]

\* The group list of the input played backwards: the groups in reverse order,
\* each interval mirrored about the middle of the clip, which lasts from the
\* first group's start to the last group's end.
ReverseGroups(groups) ==
    IF groups = <<>> THEN <<>>
    ELSE LET T == groups[1].s + groups[Len(groups)].e
         IN  [k \in 1..Len(groups) |->
                 LET g == groups[Len(groups) + 1 - k]
                 IN  Group(T - g.e, T - g.s, ReverseSeq(g.f))]

\* Hit r of the reversed input is hit h of the input mirrored, within one frame.
IsMirrorOf(c, groups, h, r) ==
    LET T == groups[1].s + groups[Len(groups)].e
    IN  /\ Abs(r.start - (T - h.end)) <= c.time_resolution_ms
        /\ Abs(r.end - (T - h.start)) <= c.time_resolution_ms

\* The hits on the reversed input are those on the input, mirrored.
MirroredHits(c, groups, hits, reversed_hits) ==
    /\ Len(hits) = Len(reversed_hits)
    /\ \A k \in 1..Len(hits) :
           \E j \in 1..Len(reversed_hits) : IsMirrorOf(c, groups, hits[k], reversed_hits[j])
    /\ \A j \in 1..Len(reversed_hits) :
           \E k \in 1..Len(hits) : IsMirrorOf(c, groups, hits[k], reversed_hits[j])

\* C19: each detector, given the group list reversed in time and the same
\* configuration, reports the intervals it reports on the list itself,
\* mirrored, within one frame.
C19_ReversedInputMirrorsHits ==
    pc = "detected" =>
        LET groups == matched_frequencies
            reversed == ReverseGroups(groups)
        IN  /\ MirroredHits(cfg, groups, pulsed_result, DetectPulsedSingleTone(cfg, reversed))
            /\ \E fp_dur \in BOOLEAN :
                   MirroredHits(cfg, groups, two_tone_result,
                                DetectTwoToneTones(cfg, reversed, fp_dur))
            /\ MirroredHits(cfg, groups, long_result, DetectLongTones(cfg, reversed))
            /\ MirroredHits(cfg, groups, hi_low_result, DetectWarbleTones(cfg, reversed))

\* ---------------------------------------------------------------- decoder failures

\* Some decoder process exited with a non-zero status.
SomeDecoderFailed == \E k \in 1..Len(invoked) : invoked[k].status # 0

\* C20: the decoder processes run one after the other, MDC before DTMF and
\* each once at most, none before the four tone detectors have run; once one
\* has exited with a non-zero status the call has raised ToneDetectionError,
\* no result record is returned, and if it was the MDC decoder the DTMF
\* decoder is not run.
C20_DecodersInOrderAndFailuresRaise ==
    /\ \A k \in 1..Len(invoked) :
           /\ invoked[k].decoder \in {"mdc", "dtmf"}
           /\ \A j \in 1..(k - 1) :
                  invoked[j].decoder = "mdc" /\ invoked[k].decoder = "dtmf"
    /\ invoked # <<>> => pc \in {"dtmf", "return", "returned", "raised"}
    /\ SomeDecoderFailed =>
           /\ pc = "raised"
           /\ err = "ToneDetectionError"
           /\ ~returned
           /\ invoked[Len(invoked)].status # 0
    /\ (invoked # <<>> /\ invoked[1].decoder = "mdc" /\ invoked[1].status # 0)
           => Len(invoked) = 1
    /\ returned => ~SomeDecoderFailed /\ pc = "returned"

\* Both decoders enabled, the MDC process exited with a non-zero status after
\* the cascade reported hits, and the call has ended.
C20_Witness ==
    /\ cfg.detect_mdc
    /\ cfg.detect_dtmf
    /\ invoked = <<[decoder |-> "mdc", status |-> 1]>>
    /\ pc = "raised"
    /\ hi_low_result # <<>>

\* The frequency of bin k, to the nearest fu.
BinFrequency(c, k) ==
    LET n_fft == PickNfft(HopLength(c))
    IN  (20 * FrameRate * k + n_fft \div 2) \div n_fft

\* C29: in the peak refinement, when the dominant bin of a frame that the
\* gating keeps is the first or the last bin of the search band, the offset
\* is 0 and the estimate is the bin's frequency; and every frame's offset
\* lies within half a bin.
C29_EdgeBinsHaveZeroOffset ==
    \A t \in 1..Len(peak_bin) :
        /\ (/\ ~IsSilent(cfg, rel_db, t)
            /\ peak_bin[t] \in {SearchBand(cfg)[1], SearchBand(cfg)[2]})
               => /\ delta[t][1] = 0
                  /\ peak_hz[t] = BinFrequency(cfg, peak_bin[t])
        /\ 2 * delta[t][1] <= delta[t][2]
        /\ 2 * delta[t][1] >= -delta[t][2]

\* A band that is not low < high.
BandInvalid(band) == band[1] >= band[2]

\* The documented bounds of which C21 speaks, on the parameters of a call.
ViolatesDocumentedBound(c) ==
    \/ c.pulsed_min_on_ms > c.pulsed_max_on_ms
    \/ c.pulsed_min_off_ms > c.pulsed_max_off_ms
    \/ c.pulsed_bw_hz <= 0
    \/ c.two_tone_bw_hz <= 0
    \/ c.long_tone_bw_hz <= 0
    \/ c.hi_low_tone_bw_hz <= 0
    \/ BandInvalid(c.pulsed_auto_center_band)
    \/ BandInvalid(c.fe_freq_band)

\* C21: a call whose configuration violates a documented bound (pulsed
\* min_on > max_on or min_off > max_off, a bandwidth <= 0, a search band or
\* an auto-center band with low >= high) never completes its analysis: it
\* ends in a configuration error and no hit is reported.
C21_InvalidConfigurationRejected ==
    ViolatesDocumentedBound(cfg) =>
        /\ pc # "done"
        /\ pc = "raised" => err = "ValueError"
        /\ pulsed_result = <<>> /\ two_tone_result = <<>>
        /\ long_result = <<>> /\ hi_low_result = <<>>

\* The stages that a call at pc has behind it, given that the stage named
\* cannot have raised.
StageDone(stage) ==
    CASE stage = "pulsed" -> pc \in {"two_tone", "long", "hi_low", "done", "raised"}
      [] stage = "two_tone" -> pc \in {"long", "hi_low", "done", "raised"}
      [] stage = "long" -> pc \in {"hi_low", "done", "raised"}
      [] stage = "hi_low" -> pc \in {"done", "raised"}

EnabledDetectorRefuses(c) ==
    \/ c.detect_pulsed /\ PulsedConfigError(c)
    \/ c.detect_two_tone /\ TwoToneConfigError(c)
    \/ c.detect_long /\ LongConfigError(c)
    \/ c.detect_hi_low /\ WarbleConfigError(c)

\* C22: a disabled tone detector contributes an empty list and masks
\* nothing, so the stage after it gets the group list it would have got
\* itself; and the call raises only if an enabled detector refuses its
\* parameters, never for a parameter of a disabled one.
C22_DisabledDetectorIsSkipped ==
    /\ (~cfg.detect_pulsed /\ StageDone("pulsed"))
           => pulsed_result = <<>> /\ g1 = matched_frequencies
    /\ (~cfg.detect_two_tone /\ StageDone("two_tone"))
           => two_tone_result = <<>> /\ g2 = g1
    /\ (~cfg.detect_long /\ StageDone("long"))
           => long_result = <<>> /\ g3 = g2
    /\ (~cfg.detect_hi_low /\ StageDone("hi_low")) => hi_low_result = <<>>
    /\ pc = "raised" => EnabledDetectorRefuses(cfg)

\* The long detector is disabled and has a parameter it would refuse, the
\* groups it was to receive held a tone that it would have reported and
\* masked, and the call has completed with these groups passed on whole.
C22_Witness ==
    /\ pc = "done"
    /\ ~cfg.detect_long
    /\ LongConfigError(cfg)
    /\ cfg.detect_two_tone
    /\ g2 # <<>>
    /\ g3 = g2
    /\ DetectLongTones(CompactConfig, g2) # <<>>
    /\ long_result = <<>>

\* The hits of one list are in start order, none begins before the one before
\* it has ended (so the starts increase strictly unless a hit is reported with
\* no length), and the k-th is numbered k in its kind.
HitsInOrder(hits, kind) ==
    \A k \in 1..Len(hits) :
        /\ hits[k].tone_id = [kind |-> kind, n |-> k]
        /\ hits[k].start <= hits[k].end
        /\ k > 1 => /\ hits[k - 1].start <= hits[k].start
                    /\ hits[k - 1].end <= hits[k].start
                    /\ hits[k - 1].start < hits[k - 1].end
                           => hits[k - 1].start < hits[k].start

\* C23: in each of the pulsed, two-tone, long and hi/low lists the hits are
\* in increasing start-time order, no two of them overlap in time, and the
\* k-th carries its kind's prefix (pl, qc, lt, hl) and the ordinal k.
C23_HitsOrderedDisjointAndNumbered ==
    /\ HitsInOrder(pulsed_result, "pl")
    /\ HitsInOrder(two_tone_result, "qc")
    /\ HitsInOrder(long_result, "lt")
    /\ HitsInOrder(hi_low_result, "hl")

\* The detectors have run on a list with two Quick Calls, on which the long
\* detector reports two tones as well and the warble detector one run.
C23_Witness ==
    /\ pc = "detected"
    /\ Len(two_tone_result) = 2
    /\ Len(long_result) = 2
    /\ hi_low_result # <<>>
    /\ two_tone_result[1].end <= two_tone_result[2].start

\* C24: every call on a finite group list whose configuration passes the
\* entry validation ends, with its result or with an error, whatever the
\* value of time_resolution_ms.
C24_EveryCallTerminates == <>(pc \in {"detected", "raised"})

\* A group that is neither OFF nor within the bandwidth of the center: its
\* timeline value is a tone elsewhere.
IsOtherGroup(c, g, center_hz) ==
    /\ TimelineFreq(c, g) > 0
    /\ Abs(TimelineFreq(c, g) - center_hz) > c.pulsed_bw_hz

\* C25: a group that is neither OFF nor within the bandwidth of the center
\* of a pulsed hit never lies inside the span of that hit, where it would
\* have been counted as ON or OFF time of a cycle.
C25_OtherGroupsOutsidePulsedHits ==
    \A h \in 1..Len(pulsed_result) :
        \A k \in 1..Len(matched_frequencies) :
            IsOtherGroup(cfg, matched_frequencies[k], pulsed_result[h].detected)
                => ~(/\ pulsed_result[h].start <= matched_frequencies[k].s
                     /\ matched_frequencies[k].e <= pulsed_result[h].end)

\* The frames as the grouper compares them.
RoundedFrames == [i \in 1..Len(detected) |-> RoundTenth(detected[i])]

\* The index of the first frame of the k-th group.
FirstFrameOf(groups, k) == 1 + Len(ConcatFreqs(SubSeq(groups, 1, k - 1), 1))

\* The rule of C26 for ON frames i - 1 and i: within the tolerance, which is
\* the percentage of the previous frame, at most 15 Hz.
WithinSpecifiedTolerance(c, freqs, i) ==
    1000 * Abs(freqs[i] - freqs[i - 1])
        <= Min2(freqs[i - 1] * c.matching_threshold, 1000 * Hz(15))

\* The rule of C26 for a forced boundary: a step of 12 Hz or more that the
\* one look-ahead frame confirms, being closer to frame i than to frame i - 1.
ForcedSplit(freqs, i) ==
    /\ Abs(freqs[i] - freqs[i - 1]) >= Hz(12)
    /\ i < Len(freqs)
    /\ Abs(freqs[i + 1] - freqs[i]) < Abs(freqs[i + 1] - freqs[i - 1])

\* C26: between two consecutive ON frames the grouper extends the run iff
\* the step is within min(percentage of the previous frame, 15 Hz) and no
\* boundary is forced by a step of 12 Hz or more that the look-ahead frame
\* confirms.
C26_BoundaryFollowsSpecifiedRule ==
    (pc = "pulsed" /\ cfg.fe_merge_short_gaps_ms = 0) =>
        \A i \in 2..Len(detected) :
            (RoundedFrames[i] > 0 /\ RoundedFrames[i - 1] > 0) =>
                ((\E k \in 1..Len(matched_frequencies) :
                      FirstFrameOf(matched_frequencies, k) = i)
                 <=> ~(/\ WithinSpecifiedTolerance(cfg, RoundedFrames, i)
                       /\ ~ForcedSplit(RoundedFrames, i)))

\* Two groups that the merging pass is to merge: of the same polarity and
\* separated by at most merge_short_gaps_ms.
Mergeable(c, ga, gb) ==
    /\ (ga.f[1] = 0) = (gb.f[1] = 0)
    /\ Max2(0, gb.s - ga.e) <= c.fe_merge_short_gaps_ms

\* C27: with merge_short_gaps_ms = 0 the grouper returns the groups of its
\* loop unmerged; with merge_short_gaps_ms > 0 the list it returns holds no
\* two consecutive groups of the same polarity separated by a gap of at most
\* merge_short_gaps_ms, also where three or more such groups were in a row.
C27_NoMergeablePairLeft ==
    pc = "pulsed" =>
        IF cfg.fe_merge_short_gaps_ms = 0
        THEN matched_frequencies =
                 (IF detected = <<>> THEN <<>> ELSE GroupFrames(cfg, RoundedFrames))
        ELSE \A k \in 1..(Len(matched_frequencies) - 1) :
                 ~Mergeable(cfg, matched_frequencies[k], matched_frequencies[k + 1])

\* C28: the groups of every reported warble run alternate strictly between
\* the two allowed tones, the centers of the run's first two groups: the
\* first, third, ... group is within the bandwidth of the first tone, the
\* second, fourth, ... within the bandwidth of the other.
C28_WarbleRunAlternatesStrictly ==
    \A h \in 1..Len(hi_low_result) :
        LET seq == GroupsWithin(matched_frequencies, hi_low_result[h])
        IN  \A k \in 1..Len(seq) :
                Close(GroupCenter(seq[k]),
                      GroupCenter(seq[IF k % 2 = 1 THEN 1 ELSE 2]),
                      cfg.hi_low_tone_bw_hz)

\* Stability as C30 states it: every non-zero frequency of the group within
\* the bandwidth of their median, whatever their number.
StableAboutMedian(g, bw_hz) ==
    LET freqs == SelectSeq(g.f, Positive)
    IN  \A k \in 1..Len(freqs) : Abs(freqs[k] - Median(freqs)) <= bw_hz

\* C30: a non-zero group counts as stable when all its frequencies are
\* within the bandwidth of its median, whatever its number of frames: so a
\* group with the length and the frequency of a long tone is reported as
\* one, a group of a single frame too.
C30_StableWhateverTheLength ==
    pc = "detected" =>
        \A k \in 1..Len(matched_frequencies) :
            LET g == matched_frequencies[k]
            IN  (/\ g.f[1] > 0
                 /\ StableAboutMedian(g, cfg.long_tone_bw_hz)
                 /\ GroupCenter(g) > cfg.fe_freq_band[1]
                 /\ g.d >= cfg.long_tone_min_length)
                    => \E h \in 1..Len(long_result) :
                           /\ long_result[h].start = g.s
                           /\ long_result[h].end = g.e

====
